---- MODULE Spec2Model ----
(***************************************************************************)
(* NordLayer Telegram bot: the order session state machine, as dispatched  *)
(* by TelegramBot in telegram-bot/main.py.                                 *)
(*                                                                         *)
(* main.py holds the routing of inbound events (callback data, text,       *)
(* commands) to the order handlers.  The handlers themselves               *)
(* (order_handlers.OrderHandlers) and the session store                    *)
(* (session_manager.SessionManager) are imported by main.py; their         *)
(* definitions below follow the design document (spec.md, 3, 4.1, 4.2).    *)
(***************************************************************************)
EXTENDS Integers, Sequences, FiniteSets, TLC

VARIABLES
    sessions,   \* SessionManager: dict user_id -> OrderSession
    pc,         \* position of the dispatch loop: "idle", "submitting", "submitted"
    cur,        \* the user whose update is being handled while pc # "idle"
    last,       \* the update handled last: its user, its kind and the outcome
    tracking_state,      \* context.user_data['tracking_state'], per user
    subscription_state,  \* context.user_data['subscription_state'], per user
    subscriptions,       \* SubscriptionManager: dict user_id -> Subscription
    now,        \* the clock, in hours since the bot started
    swept,      \* what the last cleanup_old_sessions call returned
    tasks,      \* handle_text_message invocations in flight, by slot
    notify,     \* the notification dispatcher: the event in hand and its deliveries
    proc        \* the process: the shutdown flag and the position of each loop

userData == <<tracking_state, subscription_state, subscriptions>>

\* what the handlers of one update neither read nor write
env == <<now, swept, tasks, notify, proc>>

vars == <<sessions, pc, cur, last, tracking_state, subscription_state,
          subscriptions, now, swept, tasks, notify, proc>>

----------------------------------------------------------------------------
(* Bounds of the model *)

\* files one session may hold
MaxFiles == 1

Users == {"u1", "u2"}

\* the users whose updates the order flow follows
Shoppers == {"u1"}

\* ids the upstream service listing can hold
ServiceIds == {5}

\* inbound text messages (Telegram never delivers an empty text)
Texts == {"ann@x.com", "+7900"}

\* values carried by the order_spec_* callback data
SpecValues == {"pla", "bogus"}

\* documents the chat transport can deliver; a document may come without a
\* file name (name "")
Files == {[name |-> "part.STL", size |-> 52428800],
          [name |-> "notes.txt", size |-> 1024],
          [name |-> "big.stl", size |-> 52428801],
          [name |-> "huge.txt", size |-> 52428801],
          [name |-> "", size |-> 1024]}

----------------------------------------------------------------------------
(* Optional values: Python None / a value *)

None == <<>>
Some(x) == <<x>>

\* Python truthiness of an optional string: None and "" are falsy
Falsy(v) == v = None \/ v = Some("")

\* customer_phone tri-state: None (not asked), Some("") (skipped), Some(p)
PhoneSkipped == Some("")

----------------------------------------------------------------------------
(* Text formats *)

\* the characters of each inbound text, by class: "a" letter, "0" digit
Chars(t) ==
    CASE t = "ann@x.com" -> <<"a", "a", "a", "@", "a", ".", "a", "a", "a">>
      [] t = "Ann@x.com" -> <<"a", "a", "a", "@", "a", ".", "a", "a", "a">>
      [] t = "bob@x.com" -> <<"a", "a", "a", "@", "a", ".", "a", "a", "a">>
      [] t = "a_b@x.com" -> <<"a", "_", "a", "@", "a", ".", "a", "a", "a">>
      [] t = "+7900"     -> <<"+", "0", "0", "0", "0">>
      [] OTHER           -> <<>>

AllIn(s, lo, hi, set) == \A k \in lo..hi : s[k] \in set

\* ^[a-zA-Z0-9._%+-]+@[a-zA-Z0-9.-]+\.[a-zA-Z]{2,}$
MatchesEmailPattern(s) ==
    \E i \in 2..Len(s) : \E j \in (i + 2)..(Len(s) - 2) :
        /\ s[i] = "@"
        /\ s[j] = "."
        /\ AllIn(s, 1, i - 1, {"a", "0", ".", "_", "%", "+", "-"})
        /\ AllIn(s, i + 1, j - 1, {"a", "0", ".", "-"})
        /\ AllIn(s, j + 1, Len(s), {"a"})

\* faulty variant: only the emptiness check, the pattern is not applied
validate_email_NoPattern(t) == t # ""

validate_email(t) == t # "" /\ MatchesEmailPattern(Chars(t))

\* phone format: an optional leading "+" followed by digits
validate_phone(t) ==
    LET s == Chars(t)
        from == IF Len(s) > 0 /\ s[1] = "+" THEN 2 ELSE 1
    IN  Len(s) >= from /\ AllIn(s, from, Len(s), {"0"})

\* file.file_name.lower()
Lower(name) ==
    CASE name = "part.STL" -> "part.stl"
      [] OTHER             -> name

\* the last four characters of a lower-cased file name
Suffix(name) ==
    CASE name = "part.stl"  -> ".stl"
      [] name = "big.stl"   -> ".stl"
      [] name = "notes.txt" -> ".txt"
      [] name = "huge.txt"  -> ".txt"
      [] OTHER              -> ""

supported_formats == {".stl", ".obj", ".3mf"}

\* 50 * 1024 * 1024
MaxFileSize == 52428800

----------------------------------------------------------------------------
(* OrderSession *)

StepOrder == <<"SERVICE_SELECTION", "CONTACT_INFO", "FILE_UPLOAD",
               "SPECIFICATIONS", "DELIVERY", "CONFIRMATION", "SUBMITTED">>

Steps == {StepOrder[i] : i \in 1..Len(StepOrder)}

StepIndex(st) == CHOOSE i \in 1..Len(StepOrder) : StepOrder[i] = st

SpecEnum == {"pla"}

NewSession ==
    [step             |-> "SERVICE_SELECTION",
     service_id       |-> None,
     customer_name    |-> None,
     customer_email   |-> None,
     customer_phone   |-> None,
     uploaded_files   |-> <<>>,
     material         |-> None,
     quality          |-> None,
     infill           |-> None,
     delivery_needed  |-> FALSE,
     delivery_address |-> None,
     updated_at       |-> 0]

----------------------------------------------------------------------------
(* SessionManager: a dict keyed by user id *)

HasSession(store, u) == u \in DOMAIN store

\* create / update: the session is stored with updated_at set to the clock
Put(store, u, s) ==
    [x \in (DOMAIN store) \cup {u} |->
        IF x = u THEN [s EXCEPT !.updated_at = now] ELSE store[x]]

\* clear_session: removes the entry; the caller learns whether one existed
Clear(store, u) == [x \in (DOMAIN store) \ {u} |-> store[x]]

\* the result of one handler call: the store afterwards and the outcome reported
Res(store, out) == [store |-> store, out |-> out]

----------------------------------------------------------------------------
(* Upstream API as seen by one handler call *)

\* get_services(active_only=True): the listing, or a failed call
Listings == {[ok |-> TRUE, ids |-> ids] : ids \in SUBSET ServiceIds}
            \cup {[ok |-> FALSE, ids |-> {}]}

----------------------------------------------------------------------------
(* OrderHandlers: one operator per handler called by main.py.  Each takes  *)
(* the session store and the user and yields the store afterwards with the *)
(* outcome.  A handler called for a user without a session, or at a step   *)
(* it does not belong to, leaves the store as it is.                       *)

AtStep(store, u, st) == HasSession(store, u) /\ store[u].step = st

\* StartOrder: SessionManager.create fails when the user has a session
start_order_process(store, u) ==
    IF HasSession(store, u)
    THEN Res(store, "SessionExists")
    ELSE Res(Put(store, u, NewSession), "Ok")

\* faulty variant: service_id is recorded before the listing is consulted
order_service_selection_WriteFirst(store, u, id, listing) ==
    IF ~AtStep(store, u, "SERVICE_SELECTION") THEN Res(store, "Ignored")
    ELSE LET w == Put(store, u, [store[u] EXCEPT !.service_id = Some(id)]) IN
         IF ~listing.ok THEN Res(w, "UpstreamUnavailable")
         ELSE IF id \notin listing.ids THEN Res(w, "InvalidSelection")
         ELSE Res(Put(w, u, [w[u] EXCEPT !.step = "CONTACT_INFO"]), "Ok")

\* SelectService(id): SERVICE_SELECTION -> CONTACT_INFO
order_service_selection(store, u, id, listing) ==
    IF ~AtStep(store, u, "SERVICE_SELECTION") THEN Res(store, "Ignored")
    ELSE IF ~listing.ok THEN Res(store, "UpstreamUnavailable")
    ELSE IF id \notin listing.ids THEN Res(store, "InvalidSelection")
    ELSE Res(Put(store, u, [store[u] EXCEPT !.service_id = Some(id),
                                            !.step = "CONTACT_INFO"]), "Ok")

\* Cancel: the session is cleared
cancel_order(store, u) ==
    IF HasSession(store, u)
    THEN Res(Clear(store, u), "Cancelled")
    ELSE Res(store, "NothingToCancel")

\* ContactText routed to the name field
handle_contact_name(store, u, text) ==
    IF ~AtStep(store, u, "CONTACT_INFO") THEN Res(store, "Ignored")
    ELSE Res(Put(store, u, [store[u] EXCEPT !.customer_name = Some(text)]), "Ok")

\* ContactText routed to the email field: validated by format
handle_contact_email(store, u, text) ==
    IF ~AtStep(store, u, "CONTACT_INFO") THEN Res(store, "Ignored")
    ELSE IF ~validate_email(text) THEN Res(store, "ValidationError")
    ELSE Res(Put(store, u, [store[u] EXCEPT !.customer_email = Some(text)]), "Ok")

\* ContactText routed to the phone field: validated by format;
\* CONTACT_INFO -> FILE_UPLOAD
handle_contact_phone(store, u, text) ==
    IF ~AtStep(store, u, "CONTACT_INFO") THEN Res(store, "Ignored")
    ELSE IF ~validate_phone(text) THEN Res(store, "ValidationError")
    ELSE Res(Put(store, u, [store[u] EXCEPT !.customer_phone = Some(text),
                                            !.step = "FILE_UPLOAD"]), "Ok")

\* explicit phone skip: short-circuits to FILE_UPLOAD once name and email are set
skip_phone_step(store, u) ==
    IF ~AtStep(store, u, "CONTACT_INFO") THEN Res(store, "Ignored")
    ELSE IF Falsy(store[u].customer_name) \/ Falsy(store[u].customer_email)
    THEN Res(store, "Ignored")
    ELSE Res(Put(store, u, [store[u] EXCEPT !.customer_phone = PhoneSkipped,
                                            !.step = "FILE_UPLOAD"]), "Ok")

\* FILE_UPLOAD -> SPECIFICATIONS, with or without files
continue_with_files(store, u) ==
    IF ~AtStep(store, u, "FILE_UPLOAD") THEN Res(store, "Ignored")
    ELSE Res(Put(store, u, [store[u] EXCEPT !.step = "SPECIFICATIONS"]), "Ok")

\* FileUploaded at FILE_UPLOAD: checked for format and size, then appended
handle_file_upload(store, u, file) ==
    IF ~AtStep(store, u, "FILE_UPLOAD") THEN Res(store, "Ignored")
    ELSE IF Suffix(Lower(file.name)) \notin supported_formats
    THEN Res(store, "UnsupportedFormat")
    ELSE IF file.size > MaxFileSize THEN Res(store, "FileTooLarge")
    ELSE Res(Put(store, u, [store[u] EXCEPT !.uploaded_files = Append(@, file)]),
             "Ok")

\* RemoveLastFile
remove_last_file(store, u) ==
    IF ~AtStep(store, u, "FILE_UPLOAD") THEN Res(store, "Ignored")
    ELSE IF store[u].uploaded_files = <<>> THEN Res(store, "NothingToRemove")
    ELSE Res(Put(store, u,
                 [store[u] EXCEPT !.uploaded_files =
                      SubSeq(@, 1, Len(@) - 1)]), "Ok")

SpecsChosen(s) == s.material # None /\ s.quality # None /\ s.infill # None

\* SPECIFICATIONS -> DELIVERY once material, quality and infill are chosen
AfterSpecChoice(s) ==
    IF SpecsChosen(s) THEN [s EXCEPT !.step = "DELIVERY"] ELSE s

handle_material_selection(store, u, v) ==
    IF ~AtStep(store, u, "SPECIFICATIONS") THEN Res(store, "Ignored")
    ELSE IF v \notin SpecEnum THEN Res(store, "ValidationError")
    ELSE Res(Put(store, u, AfterSpecChoice([store[u] EXCEPT !.material = Some(v)])), "Ok")

\* faulty variant: the quality is stored without a look at the enumeration
handle_quality_selection_NoValidation(store, u, v) ==
    IF ~AtStep(store, u, "SPECIFICATIONS") THEN Res(store, "Ignored")
    ELSE Res(Put(store, u, AfterSpecChoice([store[u] EXCEPT !.quality = Some(v)])), "Ok")

handle_quality_selection(store, u, v) ==
    IF ~AtStep(store, u, "SPECIFICATIONS") THEN Res(store, "Ignored")
    ELSE IF v \notin SpecEnum THEN Res(store, "ValidationError")
    ELSE Res(Put(store, u, AfterSpecChoice([store[u] EXCEPT !.quality = Some(v)])), "Ok")

handle_infill_selection(store, u, v) ==
    IF ~AtStep(store, u, "SPECIFICATIONS") THEN Res(store, "Ignored")
    ELSE IF v \notin SpecEnum THEN Res(store, "ValidationError")
    ELSE Res(Put(store, u, AfterSpecChoice([store[u] EXCEPT !.infill = Some(v)])), "Ok")

\* ChooseDelivery(Pickup): DELIVERY -> CONFIRMATION, no address kept
handle_delivery_pickup(store, u) ==
    IF ~AtStep(store, u, "DELIVERY") THEN Res(store, "Ignored")
    ELSE Res(Put(store, u, [store[u] EXCEPT !.delivery_needed = FALSE,
                                            !.delivery_address = None,
                                            !.step = "CONFIRMATION"]), "Ok")

\* ChooseDelivery(Shipping): the address is asked next, the step stays
handle_delivery_shipping(store, u) ==
    IF ~AtStep(store, u, "DELIVERY") THEN Res(store, "Ignored")
    ELSE Res(Put(store, u, [store[u] EXCEPT !.delivery_needed = TRUE]), "Ok")

\* DeliveryAddressText: DELIVERY -> CONFIRMATION
handle_delivery_address(store, u, text) ==
    IF ~AtStep(store, u, "DELIVERY") THEN Res(store, "Ignored")
    ELSE Res(Put(store, u, [store[u] EXCEPT !.delivery_address = Some(text),
                                            !.step = "CONFIRMATION"]), "Ok")

\* the data each step requires of a session that is past it (spec.md, 3)
ContactsDone(s) ==
    ~Falsy(s.customer_name) /\ ~Falsy(s.customer_email) /\ s.customer_phone # None

DeliveryDone(s) == s.delivery_needed <=> (s.delivery_address # None)

DataComplete(s) ==
    s.service_id # None /\ ContactsDone(s) /\ SpecsChosen(s) /\ DeliveryDone(s)

\* NavigateBack(target): only the step changes, and only to a step not ahead
NavigateBack(store, u, target) ==
    IF ~HasSession(store, u) THEN Res(store, "Ignored")
    ELSE IF StepIndex(target) > StepIndex(store[u].step) THEN Res(store, "Ignored")
    ELSE Res(Put(store, u, [store[u] EXCEPT !.step = target]), "Ok")

\* return to the confirmation screen of an order whose data is complete
back_to_confirmation(store, u) ==
    IF ~HasSession(store, u) THEN Res(store, "Ignored")
    ELSE IF store[u].step = "SUBMITTED" \/ ~DataComplete(store[u])
    THEN Res(store, "Ignored")
    ELSE Res(Put(store, u, [store[u] EXCEPT !.step = "CONFIRMATION"]), "Ok")

\* TelegramBot.handle_service_selection (select_service_<id>, from the
\* catalog): the details of a listed service; for an id the listing does not
\* hold, a text reply without a keyboard.  The session store is not touched.
handle_service_selection(store, u, id, listing) ==
    IF ~listing.ok THEN Res(store, "UpstreamUnavailable")
    ELSE IF id \notin listing.ids THEN Res(store, "ServiceNotFound")
    ELSE Res(store, "ServiceDetails")

----------------------------------------------------------------------------
(* TelegramBot.handle_callback_query: callback data -> handler called *)

\* faulty variant: the cancel button wired to confirm_order
OrderProcessHandler_CancelConfirms(cmd) ==
    CASE cmd = "order_select_service"      -> "handle_service_selection"
      [] cmd = "order_cancel"              -> "confirm_order"
      [] cmd = "order_skip_phone"          -> "skip_phone_step"
      [] cmd = "order_continue_with_files" -> "continue_with_files"
      [] cmd = "order_spec_material"       -> "handle_material_selection"
      [] cmd = "order_spec_quality"        -> "handle_quality_selection"
      [] cmd = "order_spec_infill"         -> "handle_infill_selection"
      [] cmd = "order_delivery_pickup"     -> "handle_delivery_pickup"
      [] cmd = "order_delivery_shipping"   -> "handle_delivery_shipping"
      [] cmd = "order_confirm"             -> "confirm_order"
      [] cmd = "order_edit_menu"           -> "show_edit_menu"
      [] OTHER                             -> "unknown"

\* faulty variant: the skip-phone button wired to confirm_order
OrderProcessHandler_SkipConfirms(cmd) ==
    CASE cmd = "order_select_service"      -> "handle_service_selection"
      [] cmd = "order_cancel"              -> "cancel_order"
      [] cmd = "order_skip_phone"          -> "confirm_order"
      [] cmd = "order_continue_with_files" -> "continue_with_files"
      [] cmd = "order_spec_material"       -> "handle_material_selection"
      [] cmd = "order_spec_quality"        -> "handle_quality_selection"
      [] cmd = "order_spec_infill"         -> "handle_infill_selection"
      [] cmd = "order_delivery_pickup"     -> "handle_delivery_pickup"
      [] cmd = "order_delivery_shipping"   -> "handle_delivery_shipping"
      [] cmd = "order_confirm"             -> "confirm_order"
      [] cmd = "order_edit_menu"           -> "show_edit_menu"
      [] OTHER                             -> "unknown"

\* "Order process callbacks"
OrderProcessHandler(cmd) ==
    CASE cmd = "order_select_service"      -> "handle_service_selection"
      [] cmd = "order_cancel"              -> "cancel_order"
      [] cmd = "order_skip_phone"          -> "skip_phone_step"
      [] cmd = "order_continue_with_files" -> "continue_with_files"
      [] cmd = "order_spec_material"       -> "handle_material_selection"
      [] cmd = "order_spec_quality"        -> "handle_quality_selection"
      [] cmd = "order_spec_infill"         -> "handle_infill_selection"
      [] cmd = "order_delivery_pickup"     -> "handle_delivery_pickup"
      [] cmd = "order_delivery_shipping"   -> "handle_delivery_shipping"
      [] cmd = "order_confirm"             -> "confirm_order"
      [] cmd = "order_edit_menu"           -> "show_edit_menu"
      [] OTHER                             -> "unknown"

\* faulty variant: the back-to-delivery button wired to the pickup choice
NavigationHandler_DeliveryPicks(cmd) ==
    CASE cmd = "order_back_to_services"     -> "back_to_services"
      [] cmd = "order_back_to_contacts"     -> "back_to_contacts"
      [] cmd = "order_back_to_files"        -> "back_to_files"
      [] cmd = "order_back_to_specs"        -> "back_to_specs"
      [] cmd = "order_back_to_delivery"     -> "handle_delivery_pickup"
      [] cmd = "order_back_to_confirmation" -> "back_to_confirmation"
      [] cmd = "order_back_to_material"     -> "back_to_material"
      [] cmd = "order_back_to_quality"      -> "back_to_quality"
      [] OTHER                              -> "unknown"

\* "Navigation callbacks"
NavigationHandler(cmd) ==
    CASE cmd = "order_back_to_services"     -> "back_to_services"
      [] cmd = "order_back_to_contacts"     -> "back_to_contacts"
      [] cmd = "order_back_to_files"        -> "back_to_files"
      [] cmd = "order_back_to_specs"        -> "back_to_specs"
      [] cmd = "order_back_to_delivery"     -> "back_to_delivery"
      [] cmd = "order_back_to_confirmation" -> "back_to_confirmation"
      [] cmd = "order_back_to_material"     -> "back_to_material"
      [] cmd = "order_back_to_quality"      -> "back_to_quality"
      [] OTHER                              -> "unknown"

\* faulty variant: the remove-last-file button wired to back_to_files
EditHandler_RemoveNavigates(cmd) ==
    CASE cmd = "order_edit_contacts"    -> "back_to_contacts"
      [] cmd = "order_edit_files"       -> "back_to_files"
      [] cmd = "order_edit_specs"       -> "back_to_specs"
      [] cmd = "order_edit_delivery"    -> "back_to_delivery"
      [] cmd = "order_remove_last_file" -> "back_to_files"
      [] OTHER                          -> "unknown"

\* faulty variant: the edit-files button wired to back_to_specs
EditHandler_FilesToSpecs(cmd) ==
    CASE cmd = "order_edit_contacts"    -> "back_to_contacts"
      [] cmd = "order_edit_files"       -> "back_to_specs"
      [] cmd = "order_edit_specs"       -> "back_to_specs"
      [] cmd = "order_edit_delivery"    -> "back_to_delivery"
      [] cmd = "order_remove_last_file" -> "remove_last_file"
      [] OTHER                          -> "unknown"

\* faulty variant: the remove-last-file branch is missing from the chain
EditHandler_NoRemove(cmd) ==
    CASE cmd = "order_edit_contacts"    -> "back_to_contacts"
      [] cmd = "order_edit_files"       -> "back_to_files"
      [] cmd = "order_edit_specs"       -> "back_to_specs"
      [] cmd = "order_edit_delivery"    -> "back_to_delivery"
      [] OTHER                          -> "unknown"

\* "Edit callbacks": each edit button calls the back_to_* handler of its step
EditHandler(cmd) ==
    CASE cmd = "order_edit_contacts"    -> "back_to_contacts"
      [] cmd = "order_edit_files"       -> "back_to_files"
      [] cmd = "order_edit_specs"       -> "back_to_specs"
      [] cmd = "order_edit_delivery"    -> "back_to_delivery"
      [] cmd = "order_remove_last_file" -> "remove_last_file"
      [] OTHER                          -> "unknown"

NavigationCmds == {"order_back_to_services", "order_back_to_contacts",
                   "order_back_to_files", "order_back_to_specs",
                   "order_back_to_delivery", "order_back_to_confirmation",
                   "order_back_to_material", "order_back_to_quality"}

EditCmds == {"order_edit_contacts", "order_edit_files", "order_edit_specs",
             "order_edit_delivery"}

\* the whole elif chain
CallbackHandler(cmd) ==
    CASE cmd = "start_order"   -> "start_order_process"
      [] cmd = "select_service" -> "catalog_service_selection"
      [] cmd = "order_service" -> "handle_service_selection"
      [] cmd \in {"show_services", "main_menu", "help"} -> "menu"
      [] cmd = "track_order"             -> "start_order_tracking"
      [] cmd = "cancel_tracking"         -> "cancel_tracking"
      [] cmd = "cancel_subscription"     -> "cancel_subscription"
      [] cmd = "subscribe_notifications" -> "subscribe_command"
      [] cmd = "unsubscribe_notifications" -> "unsubscribe_command"
      [] OrderProcessHandler(cmd) # "unknown" -> OrderProcessHandler(cmd)
      [] NavigationHandler(cmd) # "unknown"   -> NavigationHandler(cmd)
      [] EditHandler(cmd) # "unknown"         -> EditHandler(cmd)
      [] OTHER -> "unknown"

\* the step a back_to_* handler navigates to
BackTarget(h) ==
    CASE h = "back_to_services" -> "SERVICE_SELECTION"
      [] h = "back_to_contacts" -> "CONTACT_INFO"
      [] h = "back_to_files"    -> "FILE_UPLOAD"
      [] h = "back_to_specs"    -> "SPECIFICATIONS"
      [] h = "back_to_material" -> "SPECIFICATIONS"
      [] h = "back_to_quality"  -> "SPECIFICATIONS"
      [] h = "back_to_delivery" -> "DELIVERY"

\* the call made for handler name h (confirm_order is taken in steps, below)
CallHandler(h, store, u, arg, listing) ==
    CASE h = "start_order_process"       -> start_order_process(store, u)
      [] h = "catalog_service_selection" -> handle_service_selection(store, u, arg, listing)
      [] h = "handle_service_selection"  -> order_service_selection(store, u, arg, listing)
      [] h = "cancel_order"              -> cancel_order(store, u)
      [] h = "skip_phone_step"           -> skip_phone_step(store, u)
      [] h = "continue_with_files"       -> continue_with_files(store, u)
      [] h = "handle_material_selection" -> handle_material_selection(store, u, arg)
      [] h = "handle_quality_selection"  -> handle_quality_selection(store, u, arg)
      [] h = "handle_infill_selection"   -> handle_infill_selection(store, u, arg)
      [] h = "handle_delivery_pickup"    -> handle_delivery_pickup(store, u)
      [] h = "handle_delivery_shipping"  -> handle_delivery_shipping(store, u)
      [] h = "remove_last_file"          -> remove_last_file(store, u)
      [] h = "back_to_confirmation"      -> back_to_confirmation(store, u)
      [] h \in {"back_to_services", "back_to_contacts", "back_to_files",
                "back_to_specs", "back_to_material", "back_to_quality",
                "back_to_delivery"}      -> NavigateBack(store, u, BackTarget(h))
      [] OTHER                           -> Res(store, "Info")

\* callback data the chat transport can deliver: command and parsed argument
CallbackData ==
    {[cmd |-> c, arg |-> 0] :
        c \in {"start_order", "show_services", "track_order", "cancel_tracking",
               "cancel_subscription", "subscribe_notifications",
               "order_cancel", "order_skip_phone",
               "order_continue_with_files", "order_delivery_pickup",
               "order_delivery_shipping", "order_confirm", "order_edit_menu",
               "order_remove_last_file"} \cup NavigationCmds \cup EditCmds}
    \cup {[cmd |-> c, arg |-> id] :
            c \in {"select_service", "order_service", "order_select_service"},
            id \in ServiceIds}
    \cup {[cmd |-> c, arg |-> v] :
            c \in {"order_spec_material", "order_spec_quality", "order_spec_infill"},
            v \in SpecValues}

----------------------------------------------------------------------------
(* TelegramBot.handle_text_message: the handler a text is routed to *)

\* faulty variant: the phone is asked for before the email
TextHandler_PhoneBeforeEmail(store, u) ==
    IF HasSession(store, u)
    THEN LET session == store[u] IN
         IF session.step = "CONTACT_INFO"
         THEN IF Falsy(session.customer_name) THEN "handle_contact_name"
              ELSE IF session.customer_phone = None THEN "handle_contact_phone"
              ELSE IF Falsy(session.customer_email) THEN "handle_contact_email"
              ELSE "already_collected"
         ELSE IF session.step = "DELIVERY" /\ session.delivery_needed
              THEN "handle_delivery_address"
              ELSE "step_message"
    ELSE "greeting"

\* faulty variant: the email is asked for before the name
TextHandler_EmailBeforeName(store, u) ==
    IF HasSession(store, u)
    THEN LET session == store[u] IN
         IF session.step = "CONTACT_INFO"
         THEN IF Falsy(session.customer_email) THEN "handle_contact_email"
              ELSE IF Falsy(session.customer_name) THEN "handle_contact_name"
              ELSE IF session.customer_phone = None THEN "handle_contact_phone"
              ELSE "already_collected"
         ELSE IF session.step = "DELIVERY" /\ session.delivery_needed
              THEN "handle_delivery_address"
              ELSE "step_message"
    ELSE "greeting"

\* faulty variant: the phone is tested for truthiness, not for None
TextHandler_PhoneTruthiness(store, u) ==
    IF HasSession(store, u)
    THEN LET session == store[u] IN
         IF session.step = "CONTACT_INFO"
         THEN IF Falsy(session.customer_name) THEN "handle_contact_name"
              ELSE IF Falsy(session.customer_email) THEN "handle_contact_email"
              ELSE IF Falsy(session.customer_phone) THEN "handle_contact_phone"
              ELSE "already_collected"
         ELSE IF session.step = "DELIVERY" /\ session.delivery_needed
              THEN "handle_delivery_address"
              ELSE "step_message"
    ELSE "greeting"

\* faulty variant: at DELIVERY a text is taken as the address whether or not
\* shipping was chosen
TextHandler_AddressWithoutShipping(store, u) ==
    IF HasSession(store, u)
    THEN LET session == store[u] IN
         IF session.step = "CONTACT_INFO"
         THEN IF Falsy(session.customer_name) THEN "handle_contact_name"
              ELSE IF Falsy(session.customer_email) THEN "handle_contact_email"
              ELSE IF session.customer_phone = None THEN "handle_contact_phone"
              ELSE "already_collected"
         ELSE IF session.step = "DELIVERY"
              THEN "handle_delivery_address"
              ELSE "step_message"
    ELSE "greeting"

\* faulty variant: with the contacts collected a text is taken as the phone
TextHandler_PhoneAgain(store, u) ==
    IF HasSession(store, u)
    THEN LET session == store[u] IN
         IF session.step = "CONTACT_INFO"
         THEN IF Falsy(session.customer_name) THEN "handle_contact_name"
              ELSE IF Falsy(session.customer_email) THEN "handle_contact_email"
              ELSE "handle_contact_phone"
         ELSE IF session.step = "DELIVERY" /\ session.delivery_needed
              THEN "handle_delivery_address"
              ELSE "step_message"
    ELSE "greeting"

TextHandler(store, u) ==
    IF HasSession(store, u)
    THEN LET session == store[u] IN
         IF session.step = "CONTACT_INFO"
         THEN IF Falsy(session.customer_name) THEN "handle_contact_name"
              ELSE IF Falsy(session.customer_email) THEN "handle_contact_email"
              ELSE IF session.customer_phone = None THEN "handle_contact_phone"
              ELSE "already_collected"
         ELSE IF session.step = "DELIVERY" /\ session.delivery_needed
              THEN "handle_delivery_address"
              ELSE "step_message"
    ELSE "greeting"

\* faulty variant: an order session takes the text before the prompts
TextConsumer_SessionFirst(track, sub, store, u) ==
    IF HasSession(store, u) THEN TextHandler(store, u)
    ELSE IF track = "waiting_for_email" THEN "handle_tracking_email"
    ELSE IF sub = "waiting_for_email" THEN "handle_subscription_email"
    ELSE "greeting"

\* the consumer of a text: a pending tracking prompt, else a pending
\* subscription prompt, else the handler chosen by the session
TextConsumer(track, sub, store, u) ==
    IF track = "waiting_for_email" THEN "handle_tracking_email"
    ELSE IF sub = "waiting_for_email" THEN "handle_subscription_email"
    ELSE TextHandler(store, u)

CallTextHandler(h, store, u, text) ==
    CASE h = "handle_contact_name"     -> handle_contact_name(store, u, text)
      [] h = "handle_contact_email"    -> handle_contact_email(store, u, text)
      [] h = "handle_contact_phone"    -> handle_contact_phone(store, u, text)
      [] h = "handle_delivery_address" -> handle_delivery_address(store, u, text)
      [] h = "already_collected"       -> Res(store, "AlreadyCollected")
      [] h = "step_message"            -> Res(store, "StepMessage")
      [] OTHER                         -> Res(store, "Greeting")

----------------------------------------------------------------------------
(* The dispatch loop.  The Application is built without concurrent updates, *)
(* so one update is handled to its end before the next one is taken.       *)

\* the kind of an inbound callback, as the elif chain groups them
EventKind(cmd) ==
    CASE cmd = "order_back_to_confirmation" -> "return"
      [] cmd \in NavigationCmds            -> "navigate"
      [] cmd \in EditCmds                  -> "edit"
      [] cmd \in {"order_cancel", "order_confirm", "order_skip_phone"} -> cmd
      [] OTHER                             -> "callback"

Event(u, kind, out) == [user |-> u, kind |-> kind, out |-> out]

\* settings.admin_chat_ids_list is set: the notification service exists
NotificationService == TRUE

\* SubscriptionManager.subscribe_user: creates the record or updates it in
\* place, active
subscribe_user(subs, u, email, types) ==
    [x \in (DOMAIN subs) \cup {u} |->
        IF x = u
        THEN [email |-> email, notification_types |-> types, is_active |-> TRUE]
        ELSE subs[x]]

IsSubscribed(subs, u) == u \in DOMAIN subs /\ subs[u].is_active

\* update slots of the dispatcher, and the empty slot
Slots == {1, 2}

NoTask == [phase |-> "none", user |-> "none", text |-> "", handler |-> "none"]

NoTasks == [base |-> <<>>, run |-> [k \in Slots |-> NoTask]]

\* a status-change event as the webhook hands it over; none in hand
NoEvent == [customer_email |-> "", new_status |-> "none"]

\* the dispatcher at rest: no event, nobody to notify, nothing sent
NoDispatch == [event |-> NoEvent, targets |-> {}, queue |-> {}, log |-> <<>>]

\* the process after run() has started its tasks: the flag is clear, the
\* updater polls, the cleanup task and the webhook server run
Started == [flag |-> FALSE, run |-> "waiting", dispatch |-> "polling",
            sweep |-> "cleanup", webhook |-> "serving"]

Init ==
    /\ tracking_state = [u \in Users |-> "none"]
    /\ subscription_state = [u \in Users |-> "none"]
    /\ subscriptions = [x \in {} |-> [email |-> "", notification_types |-> {},
                                      is_active |-> FALSE]]
    /\ sessions = [x \in {} |-> NewSession]
    /\ pc = "idle"
    /\ cur = "none"
    /\ last = Event("none", "none", "none")
    /\ now = 0
    /\ swept = {}
    /\ tasks = NoTasks
    /\ notify = NoDispatch
    /\ proc = Started

\* confirm_order, first part: at CONFIRMATION the order is sent upstream
ConfirmBegin(u, kind) ==
    IF AtStep(sessions, u, "CONFIRMATION")
    THEN /\ pc' = "submitting"
         /\ cur' = u
         /\ last' = Event(u, kind, "Submitting")
         /\ UNCHANGED <<sessions, userData>>
    ELSE /\ last' = Event(u, kind, "Ignored")
         /\ UNCHANGED <<sessions, pc, cur, userData>>

\* start_order_tracking: the email prompt is armed
StartOrderTracking(u, kind) ==
    /\ tracking_state' = [tracking_state EXCEPT ![u] = "waiting_for_email"]
    /\ last' = Event(u, kind, "TrackingPrompt")
    /\ UNCHANGED <<sessions, pc, cur, subscription_state, subscriptions>>

\* the reply of subscribe_command goes through update.message, which a
\* button press does not carry: called from handle_callback_query the reply
\* raises, and the handler's except clause reports the failure
SubscribeReply(kind, out) ==
    IF kind \in {"/subscribe", "/unsubscribe"} THEN out ELSE "HandlerError"

\* subscribe_command: the email prompt is armed unless the user is subscribed
SubscribeStart(u, kind) ==
    IF ~NotificationService
    THEN /\ last' = Event(u, kind, SubscribeReply(kind, "NotificationsUnavailable"))
         /\ UNCHANGED <<sessions, pc, cur, userData>>
    ELSE IF IsSubscribed(subscriptions, u)
    THEN /\ last' = Event(u, kind, SubscribeReply(kind, "AlreadySubscribed"))
         /\ UNCHANGED <<sessions, pc, cur, userData>>
    ELSE /\ subscription_state' = [subscription_state EXCEPT ![u] = "waiting_for_email"]
         /\ last' = Event(u, kind, SubscribeReply(kind, "SubscriptionPrompt"))
         /\ UNCHANGED <<sessions, pc, cur, tracking_state, subscriptions>>

\* faulty variant: the record is deleted
unsubscribe_user_Deletes(subs, u) ==
    IF IsSubscribed(subs, u)
    THEN [subs |-> [x \in (DOMAIN subs) \ {u} |-> subs[x]], ok |-> TRUE]
    ELSE [subs |-> subs, ok |-> FALSE]

\* SubscriptionManager.unsubscribe_user: an active record is switched off and
\* kept; the caller learns whether one was switched off
unsubscribe_user(subs, u) ==
    IF IsSubscribed(subs, u)
    THEN [subs |-> [subs EXCEPT ![u].is_active = FALSE], ok |-> TRUE]
    ELSE [subs |-> subs, ok |-> FALSE]

\* faulty variant: unsubscribe_user is called without the is_active check
UnsubscribeStart_NoActiveCheck(u, kind) ==
    IF ~NotificationService
    THEN /\ last' = Event(u, kind, SubscribeReply(kind, "NotificationsUnavailable"))
         /\ UNCHANGED <<sessions, pc, cur, userData>>
    ELSE LET r == unsubscribe_user(subscriptions, u) IN
         /\ subscriptions' = r.subs
         /\ last' = Event(u, kind, SubscribeReply(kind,
                        IF r.ok THEN "Unsubscribed" ELSE "UnsubscribeFailed"))
         /\ UNCHANGED <<sessions, pc, cur, tracking_state, subscription_state>>

\* unsubscribe_command: only an active subscription is switched off
UnsubscribeStart(u, kind) ==
    IF ~NotificationService
    THEN /\ last' = Event(u, kind, SubscribeReply(kind, "NotificationsUnavailable"))
         /\ UNCHANGED <<sessions, pc, cur, userData>>
    ELSE IF ~IsSubscribed(subscriptions, u)
    THEN /\ last' = Event(u, kind, SubscribeReply(kind, "NotSubscribed"))
         /\ UNCHANGED <<sessions, pc, cur, userData>>
    ELSE LET r == unsubscribe_user(subscriptions, u) IN
         /\ subscriptions' = r.subs
         /\ last' = Event(u, kind, SubscribeReply(kind,
                        IF r.ok THEN "Unsubscribed" ELSE "UnsubscribeFailed"))
         /\ UNCHANGED <<sessions, pc, cur, tracking_state, subscription_state>>

\* the handlers that fetch the service listing
ListingHandlers == {"handle_service_selection", "catalog_service_selection"}

NoListing == [ok |-> FALSE, ids |-> {}]

\* faulty variant: a button press is handled while a submission is in flight
CallbackQueryWith_Concurrent(u, d, listing) ==
    /\ pc \in {"idle", "submitting"}
    /\ UNCHANGED env
    /\ LET h == CallbackHandler(d.cmd) IN
       CASE h = "confirm_order" -> ConfirmBegin(u, EventKind(d.cmd))
         [] h = "start_order_tracking" -> StartOrderTracking(u, EventKind(d.cmd))
         [] h = "subscribe_command" -> SubscribeStart(u, EventKind(d.cmd))
         [] h = "unsubscribe_command" -> UnsubscribeStart(u, EventKind(d.cmd))
         [] h = "cancel_tracking" ->
              /\ tracking_state' = [tracking_state EXCEPT ![u] = "none"]
              /\ last' = Event(u, EventKind(d.cmd), "MainMenu")
              /\ UNCHANGED <<sessions, pc, cur, subscription_state, subscriptions>>
         [] h = "cancel_subscription" ->
              /\ subscription_state' = [subscription_state EXCEPT ![u] = "none"]
              /\ last' = Event(u, EventKind(d.cmd), "MainMenu")
              /\ UNCHANGED <<sessions, pc, cur, tracking_state, subscriptions>>
         [] OTHER ->
              LET r == CallHandler(h, sessions, u, d.arg, listing) IN
              /\ sessions' = r.store
              /\ last' = Event(u, EventKind(d.cmd), r.out)
              /\ UNCHANGED <<pc, cur, userData>>

\* handle_callback_query, with the listing the upstream returns if asked
CallbackQueryWith(u, d, listing) ==
    /\ pc = "idle"
    /\ UNCHANGED env
    /\ LET h == CallbackHandler(d.cmd) IN
       CASE h = "confirm_order" -> ConfirmBegin(u, EventKind(d.cmd))
         [] h = "start_order_tracking" -> StartOrderTracking(u, EventKind(d.cmd))
         [] h = "subscribe_command" -> SubscribeStart(u, EventKind(d.cmd))
         [] h = "unsubscribe_command" -> UnsubscribeStart(u, EventKind(d.cmd))
         [] h = "cancel_tracking" ->
              /\ tracking_state' = [tracking_state EXCEPT ![u] = "none"]
              /\ last' = Event(u, EventKind(d.cmd), "MainMenu")
              /\ UNCHANGED <<sessions, pc, cur, subscription_state, subscriptions>>
         [] h = "cancel_subscription" ->
              /\ subscription_state' = [subscription_state EXCEPT ![u] = "none"]
              /\ last' = Event(u, EventKind(d.cmd), "MainMenu")
              /\ UNCHANGED <<sessions, pc, cur, tracking_state, subscriptions>>
         [] OTHER ->
              LET r == CallHandler(h, sessions, u, d.arg, listing) IN
              /\ sessions' = r.store
              /\ last' = Event(u, EventKind(d.cmd), r.out)
              /\ UNCHANGED <<pc, cur, userData>>

\* handle_callback_query
HandleCallbackQuery(u, d) ==
    \E listing \in (IF CallbackHandler(d.cmd) \in ListingHandlers
                     THEN Listings ELSE {NoListing}) :
        CallbackQueryWith(u, d, listing)

\* submit_order returned an order reference: the session becomes SUBMITTED
SubmitSucceeds ==
    /\ pc = "submitting"
    /\ UNCHANGED env
    /\ sessions' = IF HasSession(sessions, cur)
                   THEN Put(sessions, cur, [sessions[cur] EXCEPT !.step = "SUBMITTED"])
                   ELSE sessions
    /\ pc' = "submitted"
    /\ last' = [last EXCEPT !.out = "Submitted"]
    /\ UNCHANGED <<cur, userData>>

\* faulty variant: the submitted session is left in the store
ClearSubmitted_KeepsSession ==
    /\ pc = "submitted"
    /\ UNCHANGED env
    /\ pc' = "idle"
    /\ cur' = "none"
    /\ last' = [last EXCEPT !.out = "Cleared"]
    /\ UNCHANGED <<sessions, userData>>

\* confirm_order, last part: the submitted session is cleared
ClearSubmitted ==
    /\ pc = "submitted"
    /\ UNCHANGED env
    /\ sessions' = Clear(sessions, cur)
    /\ pc' = "idle"
    /\ cur' = "none"
    /\ last' = [last EXCEPT !.out = "Cleared"]
    /\ UNCHANGED userData

\* faulty variant: a failed submission drops the session
SubmitFails_DropsSession ==
    /\ pc = "submitting"
    /\ UNCHANGED env
    /\ pc' = "idle"
    /\ cur' = "none"
    /\ sessions' = Clear(sessions, cur)
    /\ last' = [last EXCEPT !.out = "OrderSubmissionFailed"]
    /\ UNCHANGED userData

\* submit_order failed (UpstreamUnavailable, UpstreamRejected)
SubmitFails ==
    /\ pc = "submitting"
    /\ UNCHANGED env
    /\ pc' = "idle"
    /\ cur' = "none"
    /\ last' = [last EXCEPT !.out = "OrderSubmissionFailed"]
    /\ UNCHANGED <<sessions, userData>>

\* get_orders_by_email as seen by handle_tracking_email: orders, no orders,
\* an APIClientError, or another exception
TrackingResults == {"OrdersListed", "OrdersNotFound", "UpstreamUnavailable",
                    "UnexpectedError"}

\* the paths of handle_tracking_email for a well-formed email: the "searching"
\* message is sent inside the try, ahead of the call, so a failure to send it
\* reaches the except clause with no call made
TrackingOutcomes == TrackingResults \cup {"LoadingFailed"}

\* get_orders_by_email calls made on the path with the given reply
UpstreamCalls(out) == IF out \in TrackingResults THEN 1 ELSE 0

\* faulty variant: the prompt stays armed when the search fails
HandleTrackingEmail_KeepsOnError(u, email) ==
    IF ~validate_email(email)
    THEN /\ last' = Event(u, "text", "InvalidEmail")
         /\ UNCHANGED <<sessions, userData>>
    ELSE \E result \in TrackingOutcomes :
           /\ tracking_state' =
                 IF result \in {"OrdersListed", "OrdersNotFound"}
                 THEN [tracking_state EXCEPT ![u] = "none"]
                 ELSE tracking_state
           /\ last' = Event(u, "text", result)
           /\ UNCHANGED <<sessions, subscription_state, subscriptions>>

\* handle_tracking_email
HandleTrackingEmail(u, email) ==
    IF ~validate_email(email)
    THEN /\ last' = Event(u, "text", "InvalidEmail")
         /\ UNCHANGED <<sessions, userData>>
    ELSE \E result \in TrackingOutcomes :
           /\ tracking_state' = [tracking_state EXCEPT ![u] = "none"]
           /\ last' = Event(u, "text", result)
           /\ UNCHANGED <<sessions, subscription_state, subscriptions>>

\* the underscores of a text
Underscores(t) == {k \in DOMAIN Chars(t) : Chars(t)[k] = "_"}

\* parse_mode='Markdown': an underscore opens an entity that the next one
\* closes, and the chat transport refuses a message with an entity left open
MarkdownParses(t) == Cardinality(Underscores(t)) % 2 = 0

\* update.message.reply_text(message, parse_mode='Markdown') with the given
\* text quoted in the message: sent, or raised (a message the transport does
\* not parse is never sent)
ReplySent(quoted) == IF MarkdownParses(quoted) THEN BOOLEAN ELSE {FALSE}

\* handle_subscription_email: subscription_state is cleared after the reply
\* has been sent
HandleSubscriptionEmail(u, email) ==
    IF ~validate_email(email)
    THEN /\ last' = Event(u, "text", "InvalidEmail")
         /\ UNCHANGED <<sessions, userData>>
    ELSE /\ IF NotificationService
            THEN \E success \in BOOLEAN :
                 \E sent \in ReplySent(IF success THEN email ELSE "") :
                   /\ subscriptions' =
                         IF success
                         THEN subscribe_user(subscriptions, u, email,
                                             {"status_change", "order_ready"})
                         ELSE subscriptions
                   /\ last' = Event(u, "text",
                                    IF ~sent THEN "ReplyFailed"
                                    ELSE IF success THEN "Subscribed"
                                    ELSE "SubscribeFailed")
                   /\ subscription_state' =
                         IF sent
                         THEN [subscription_state EXCEPT ![u] = "none"]
                         ELSE subscription_state
            ELSE \E sent \in ReplySent("") :
                   /\ last' = Event(u, "text",
                                    IF sent THEN "NotificationsUnavailable"
                                    ELSE "ReplyFailed")
                   /\ subscription_state' =
                         IF sent
                         THEN [subscription_state EXCEPT ![u] = "none"]
                         ELSE subscription_state
                   /\ UNCHANGED subscriptions
         /\ UNCHANGED <<sessions, tracking_state>>

\* handle_text_message
HandleTextMessage(u, text) ==
    /\ pc = "idle"
    /\ UNCHANGED env
    /\ UNCHANGED <<pc, cur>>
    /\ LET h == TextConsumer(tracking_state[u], subscription_state[u], sessions, u) IN
       CASE h = "handle_tracking_email"     -> HandleTrackingEmail(u, text)
         [] h = "handle_subscription_email" -> HandleSubscriptionEmail(u, text)
         [] OTHER ->
              LET r == CallTextHandler(h, sessions, u, text) IN
              /\ sessions' = r.store
              /\ last' = Event(u, "text", r.out)
              /\ UNCHANGED userData

\* track_command (/track)
TrackCommand(u) ==
    /\ pc = "idle"
    /\ UNCHANGED env
    /\ StartOrderTracking(u, "/track")

\* subscribe_command (/subscribe)
SubscribeCommand(u) ==
    /\ pc = "idle"
    /\ UNCHANGED env
    /\ SubscribeStart(u, "/subscribe")

\* unsubscribe_command (/unsubscribe)
UnsubscribeCommand(u) ==
    /\ pc = "idle"
    /\ UNCHANGED env
    /\ UnsubscribeStart(u, "/unsubscribe")

\* faulty variant: the size is checked before the format
AcknowledgeFile_SizeFirst(file) ==
    IF file.name = "" THEN "FileNotFound"
    ELSE IF file.size > MaxFileSize THEN "FileTooLarge"
    ELSE IF Suffix(Lower(file.name)) \notin supported_formats
    THEN "UnsupportedFormat"
    ELSE "FileReceived"

\* handle_file, "Handle file outside of order context": the reply
AcknowledgeFile(file) ==
    IF file.name = "" THEN "FileNotFound"
    ELSE IF Suffix(Lower(file.name)) \notin supported_formats
    THEN "UnsupportedFormat"
    ELSE IF file.size > MaxFileSize THEN "FileTooLarge"
    ELSE "FileReceived"

\* faulty variant: any session, whatever its step, takes the file
HandleFile_NoStepCheck(u, file) ==
    /\ pc = "idle"
    /\ UNCHANGED env
    /\ IF HasSession(sessions, u)
       THEN /\ Len(sessions[u].uploaded_files) < MaxFiles
            /\ LET r == handle_file_upload(sessions, u, file) IN
                /\ sessions' = r.store
                /\ last' = Event(u, "file", r.out)
       ELSE /\ sessions' = sessions
            /\ last' = Event(u, "file", AcknowledgeFile(file))
    /\ UNCHANGED <<pc, cur, userData>>

\* handle_file: in the order context only at FILE_UPLOAD, else acknowledged
HandleFile(u, file) ==
    /\ pc = "idle"
    /\ UNCHANGED env
    /\ IF AtStep(sessions, u, "FILE_UPLOAD")
       THEN /\ Len(sessions[u].uploaded_files) < MaxFiles
            /\ LET r == handle_file_upload(sessions, u, file) IN
                /\ sessions' = r.store
                /\ last' = Event(u, "file", r.out)
       ELSE /\ sessions' = sessions
            /\ last' = Event(u, "file", AcknowledgeFile(file))
    /\ UNCHANGED <<pc, cur, userData>>

\* faulty variant: the reply is sent but the store is not cleared
CancelCommand_NoClear(u) ==
    /\ pc = "idle"
    /\ UNCHANGED env
    /\ last' = Event(u, "/cancel",
                     IF HasSession(sessions, u) THEN "Cancelled" ELSE "NothingToCancel")
    /\ UNCHANGED <<sessions, pc, cur, userData>>

\* faulty variant: /cancel also drops the pending email prompts
CancelCommand_ClearsPrompts(u) ==
    /\ pc = "idle"
    /\ UNCHANGED env
    /\ sessions' = Clear(sessions, u)
    /\ tracking_state' = [tracking_state EXCEPT ![u] = "none"]
    /\ subscription_state' = [subscription_state EXCEPT ![u] = "none"]
    /\ last' = Event(u, "/cancel",
                     IF HasSession(sessions, u) THEN "Cancelled" ELSE "NothingToCancel")
    /\ UNCHANGED <<pc, cur, subscriptions>>

\* cancel_command (/cancel): clear_session on the store
CancelCommand(u) ==
    /\ pc = "idle"
    /\ UNCHANGED env
    /\ sessions' = Clear(sessions, u)
    /\ last' = Event(u, "/cancel",
                     IF HasSession(sessions, u) THEN "Cancelled" ELSE "NothingToCancel")
    /\ UNCHANGED <<pc, cur, userData>>

\* faulty variant: /order starts afresh over an existing session
OrderCommand_Replaces(u) ==
    /\ pc = "idle"
    /\ UNCHANGED env
    /\ sessions' = Put(sessions, u, NewSession)
    /\ last' = Event(u, "/order", "Ok")
    /\ UNCHANGED <<pc, cur, userData>>

\* order_command (/order)
OrderCommand(u) ==
    /\ pc = "idle"
    /\ UNCHANGED env
    /\ LET r == start_order_process(sessions, u) IN
       /\ sessions' = r.store
       /\ last' = Event(u, "/order", r.out)
    /\ UNCHANGED <<pc, cur, userData>>

Next ==
    \/ \E u \in Shoppers, d \in CallbackData : HandleCallbackQuery(u, d)
    \/ \E u \in Shoppers, text \in Texts : HandleTextMessage(u, text)
    \/ \E u \in Shoppers, file \in Files : HandleFile(u, file)
    \/ \E u \in Shoppers : CancelCommand(u)
    \/ \E u \in Shoppers : OrderCommand(u)
    \/ \E u \in Shoppers : TrackCommand(u)
    \/ \E u \in Shoppers : SubscribeCommand(u)
    \/ SubmitSucceeds
    \/ SubmitFails
    \/ ClearSubmitted

Spec == Init /\ [][Next]_vars

----------------------------------------------------------------------------
(* Session cleanup: the task started by run() beside the update loop *)

\* hours the clock of the model runs for
MaxClock == 3

\* settings.session_cleanup_hours, the idle time a session may reach
SessionCleanupHours == 1

IdleTime(s) == now - s.updated_at

\* SessionManager.cleanup_old_sessions(max_idle): drops the sessions idle for
\* longer than max_idle and returns their ids
cleanup_old_sessions(store, max_idle) ==
    LET old == {u \in DOMAIN store : IdleTime(store[u]) > max_idle} IN
    [store   |-> [x \in (DOMAIN store) \ old |-> store[x]],
     removed |-> old]

\* faulty variant: the sweep is called with no idle time allowed
CleanupSessions_NoIdleAllowed ==
    /\ LET r == cleanup_old_sessions(sessions, 0) IN
       /\ sessions' = r.store
       /\ swept' = r.removed
    /\ UNCHANGED <<pc, cur, last, userData, now, tasks, notify, proc>>

\* cleanup_sessions_periodically: one pass of the loop; the call does not
\* await, so it runs between two updates
CleanupSessions ==
    /\ LET r == cleanup_old_sessions(sessions, SessionCleanupHours) IN
       /\ sessions' = r.store
       /\ swept' = r.removed
    /\ UNCHANGED <<pc, cur, last, userData, now, tasks, notify, proc>>

\* asyncio.sleep(3600): an hour passes
Tick ==
    /\ now < MaxClock
    /\ now' = now + 1
    /\ UNCHANGED <<sessions, pc, cur, last, userData, swept, tasks, notify, proc>>

\* the buttons pressed while the cleanup is followed
SweepCallbacks == {[cmd |-> "order_select_service", arg |-> id] : id \in ServiceIds}

SweepNext ==
    \/ \E u \in Users : OrderCommand(u)
    \/ \E u \in Users : CancelCommand(u)
    \/ \E u \in Users, d \in SweepCallbacks : HandleCallbackQuery(u, d)
    \/ Tick
    \/ CleanupSessions

SpecSweep == Init /\ [][SweepNext]_vars

----------------------------------------------------------------------------
(* Two text updates of one user, each handled in two steps: the routing up *)
(* to the first await, and the awaited handler                             *)

Running(k) == tasks.run[k].phase \in {"received", "routed"}

\* no text update has been taken yet
Quiet == \A k \in Slots : tasks.run[k].phase = "none"

Taken(k, u, text) ==
    [base |-> IF Quiet THEN <<sessions>> ELSE tasks.base,
     run  |-> [tasks.run EXCEPT ![k] = [phase |-> "received", user |-> u,
                                        text |-> text, handler |-> "none"]]]

\* faulty variant: updates are taken while a handler is still running
ConcReceive_Concurrent(k, u, text) ==
    /\ pc = "idle"
    /\ tasks.run[k].phase = "none"
    /\ tasks' = Taken(k, u, text)
    /\ UNCHANGED <<sessions, pc, cur, last, userData, now, swept, notify, proc>>

\* the Application built without concurrent_updates: an update is taken
\* only when the handler of the update before it has returned
ConcReceive(k, u, text) ==
    /\ pc = "idle"
    /\ tasks.run[k].phase = "none"
    /\ \A j \in Slots : ~Running(j)
    /\ tasks' = Taken(k, u, text)
    /\ UNCHANGED <<sessions, pc, cur, last, userData, now, swept, notify, proc>>

\* handle_text_message up to its first await: user_data and the session are
\* read and the handler is chosen
ConcRead(k) ==
    /\ tasks.run[k].phase = "received"
    /\ LET u == tasks.run[k].user IN
       tasks' = [tasks EXCEPT
                   !.run[k].phase = "routed",
                   !.run[k].handler = TextConsumer(tracking_state[u],
                                                   subscription_state[u],
                                                   sessions, u)]
    /\ UNCHANGED <<sessions, pc, cur, last, userData, now, swept, notify, proc>>

\* faulty variant: the awaited handler works on the store as it was when the
\* first text was taken, and writes that back
ConcWrite_FromSnapshot(k) ==
    /\ tasks.run[k].phase = "routed"
    /\ tasks' = [tasks EXCEPT !.run[k].phase = "done"]
    /\ UNCHANGED <<pc, cur, now, swept, notify, proc>>
    /\ LET u == tasks.run[k].user
           text == tasks.run[k].text
           h == tasks.run[k].handler IN
       CASE h = "handle_tracking_email"     -> HandleTrackingEmail(u, text)
         [] h = "handle_subscription_email" -> HandleSubscriptionEmail(u, text)
         [] OTHER ->
              LET r == CallTextHandler(h, tasks.base[1], u, text) IN
              /\ sessions' = r.store
              /\ last' = Event(u, "text", r.out)
              /\ UNCHANGED userData

\* handle_text_message from its await on: the chosen handler runs
ConcWrite(k) ==
    /\ tasks.run[k].phase = "routed"
    /\ tasks' = [tasks EXCEPT !.run[k].phase = "done"]
    /\ UNCHANGED <<pc, cur, now, swept, notify, proc>>
    /\ LET u == tasks.run[k].user
           text == tasks.run[k].text
           h == tasks.run[k].handler IN
       CASE h = "handle_tracking_email"     -> HandleTrackingEmail(u, text)
         [] h = "handle_subscription_email" -> HandleSubscriptionEmail(u, text)
         [] OTHER ->
              LET r == CallTextHandler(h, sessions, u, text) IN
              /\ sessions' = r.store
              /\ last' = Event(u, "text", r.out)
              /\ UNCHANGED userData

\* the buttons pressed before the two texts arrive
ConcCallbacks ==
    {[cmd |-> c, arg |-> 0] : c \in {"order_skip_phone", "order_back_to_contacts"}}
    \cup {[cmd |-> "order_select_service", arg |-> id] : id \in ServiceIds}

ConcNext ==
    \/ \E u \in Shoppers : Quiet /\ OrderCommand(u)
    \/ \E u \in Shoppers, d \in ConcCallbacks : Quiet /\ HandleCallbackQuery(u, d)
    \/ \E u \in Shoppers, text \in Texts : Quiet /\ HandleTextMessage(u, text)
    \/ \E k \in Slots, u \in Shoppers, text \in Texts : ConcReceive(k, u, text)
    \/ \E k \in Slots : ConcRead(k)
    \/ \E k \in Slots : ConcWrite(k)

SpecConc == Init /\ [][ConcNext]_vars

----------------------------------------------------------------------------
(* A text handler suspended at its await while the cleanup task runs: the *)
(* cleanup is a task of its own and may run at any await of a handler;    *)
(* commands and buttons are updates and wait for the handler to return    *)

NoneRunning == \A j \in Slots : ~Running(j)

ResumeCallbacks == {[cmd |-> "order_select_service", arg |-> id] : id \in ServiceIds}

ResumeNext ==
    \/ \E u \in Shoppers : NoneRunning /\ OrderCommand(u)
    \/ \E u \in Shoppers : NoneRunning /\ CancelCommand(u)
    \/ \E u \in Shoppers, d \in ResumeCallbacks :
          NoneRunning /\ HandleCallbackQuery(u, d)
    \/ \E k \in Slots, u \in Shoppers, text \in Texts : ConcReceive(k, u, text)
    \/ \E k \in Slots : ConcRead(k)
    \/ \E k \in Slots : ConcWrite(k)
    \/ Tick
    \/ CleanupSessions

SpecResume == Init /\ [][ResumeNext]_vars

----------------------------------------------------------------------------
(* Subscriptions: the commands, the email prompt and the buttons, for two *)
(* users and no order in progress                                         *)

\* texts sent while subscriptions are followed
SubsTexts == {"ann@x.com", "bob@x.com", "a_b@x.com", "+7900"}

SubsCallbacks ==
    {[cmd |-> c, arg |-> 0] : c \in {"subscribe_notifications",
                                     "unsubscribe_notifications",
                                     "cancel_subscription"}}

SubsNext ==
    \/ \E u \in Users : SubscribeCommand(u)
    \/ \E u \in Users : UnsubscribeCommand(u)
    \/ \E u \in Users, text \in SubsTexts : HandleTextMessage(u, text)
    \/ \E u \in Users, d \in SubsCallbacks : HandleCallbackQuery(u, d)

SpecSubs == Init /\ [][SubsNext]_vars

----------------------------------------------------------------------------
(* Notification dispatcher: a status-change event handed over by the      *)
(* webhook is sent to the matching subscribers, one delivery at a time    *)

Statuses == {"printing", "ready"}

EventEmails == {"ann@x.com", "Ann@x.com", "bob@x.com"}

\* {order_id, customer_email, new_status}; the order id plays no part
Events ==
    {[customer_email |-> e, new_status |-> st] : e \in EventEmails, st \in Statuses}

TypeSets == {{"status_change", "order_ready"}, {"order_ready"}}

\* the subscription stores the dispatcher may find
SubRecords ==
    {[email |-> e, notification_types |-> t, is_active |-> a] :
        e \in EventEmails, t \in TypeSets, a \in BOOLEAN}

Stores == UNION {[D -> SubRecords] : D \in SUBSET Users}

\* the email in lower case
LowerEmail(e) ==
    CASE e = "Ann@x.com" -> "ann@x.com"
      [] OTHER           -> e

\* faulty variant: the emails are compared as they are written
SameEmail_CaseSensitive(a, b) == a = b

\* case-insensitive exact match
SameEmail(a, b) == LowerEmail(a) = LowerEmail(b)

IndicatesReadiness(st) == st = "ready"

\* faulty variant: the notification types are not consulted
Wants_IgnoresTypes(types, ev) == TRUE

\* the notification_types filter: a status change is sent to those who opted
\* into status_change, and a change to readiness also to those who opted
\* into order_ready
Wants(types, ev) ==
    \/ "status_change" \in types
    \/ "order_ready" \in types /\ IndicatesReadiness(ev.new_status)

\* faulty variant: switched-off subscriptions are looked up as well
Matching_IgnoresActive(subs, ev) ==
    {u \in DOMAIN subs : /\ SameEmail(subs[u].email, ev.customer_email)
                         /\ Wants(subs[u].notification_types, ev)}

\* the subscribers an event is sent to
Matching(subs, ev) ==
    {u \in DOMAIN subs : /\ subs[u].is_active
                         /\ SameEmail(subs[u].email, ev.customer_email)
                         /\ Wants(subs[u].notification_types, ev)}

\* an event arrives: the matching subscriptions are looked up
DispatchBegin(ev) ==
    /\ notify = NoDispatch
    /\ LET m == Matching(subscriptions, ev) IN
       notify' = [event |-> ev, targets |-> m, queue |-> m, log |-> <<>>]
    /\ UNCHANGED <<sessions, pc, cur, last, userData, now, swept, tasks, proc>>

\* faulty variant: a failed delivery ends the fan-out
Deliver_StopsOnFailure(u, ok) ==
    /\ u \in notify.queue
    /\ notify' = [notify EXCEPT
                    !.queue = IF ok THEN @ \ {u} ELSE {},
                    !.log = Append(@, [user |-> u, ok |-> ok])]
    /\ UNCHANGED <<sessions, pc, cur, last, userData, now, swept, tasks, proc>>

\* one message is sent to one subscriber; a failure is logged and the
\* subscriber is not tried again
Deliver(u, ok) ==
    /\ u \in notify.queue
    /\ notify' = [notify EXCEPT
                    !.queue = @ \ {u},
                    !.log = Append(@, [user |-> u, ok |-> ok])]
    /\ UNCHANGED <<sessions, pc, cur, last, userData, now, swept, tasks, proc>>

\* every subscriber has been tried: the dispatcher is ready for the next event
DispatchEnd ==
    /\ notify.event # NoEvent
    /\ notify.queue = {}
    /\ notify' = NoDispatch
    /\ UNCHANGED <<sessions, pc, cur, last, userData, now, swept, tasks, proc>>

NotifyInit ==
    /\ tracking_state = [u \in Users |-> "none"]
    /\ subscription_state = [u \in Users |-> "none"]
    /\ subscriptions \in Stores
    /\ sessions = [x \in {} |-> NewSession]
    /\ pc = "idle"
    /\ cur = "none"
    /\ last = Event("none", "none", "none")
    /\ now = 0
    /\ swept = {}
    /\ tasks = NoTasks
    /\ notify = NoDispatch
    /\ proc = Started

NotifyNext ==
    \/ \E ev \in Events : DispatchBegin(ev)
    \/ \E u \in Users, ok \in BOOLEAN : Deliver(u, ok)
    \/ DispatchEnd

SpecNotify == NotifyInit /\ [][NotifyNext]_vars

----------------------------------------------------------------------------
(* Subscriptions and dispatcher together: the commands of two users run   *)
(* between the deliveries of an event                                     *)

UnsubTexts == {"ann@x.com", "+7900"}

UnsubEvents == {ev \in Events : ev.customer_email \in {"ann@x.com", "Ann@x.com"}}

UnsubNext ==
    \/ \E u \in Users : SubscribeCommand(u)
    \/ \E u \in Users : UnsubscribeCommand(u)
    \/ \E u \in Users, text \in UnsubTexts : HandleTextMessage(u, text)
    \/ \E ev \in UnsubEvents : DispatchBegin(ev)
    \/ \E u \in Users, ok \in BOOLEAN : Deliver(u, ok)
    \/ DispatchEnd

SpecUnsub == Init /\ [][UnsubNext]_vars

----------------------------------------------------------------------------
(* Handlers that raise: an awaited handler may raise before or after it   *)
(* has written the session of its user                                    *)

\* faulty variant: the exception ends the process and the sessions are lost
TextRaises_DropsSessions(u, text, wrote) ==
    /\ pc = "idle"
    /\ UNCHANGED env
    /\ sessions' = [x \in {} |-> NewSession]
    /\ last' = Event(u, "text", "UnexpectedError")
    /\ UNCHANGED <<pc, cur, userData>>

\* handle_text_message raises: the exception leaves the handler, the
\* Application passes it to error_handler, which logs it and answers with the
\* generic failure message
TextRaises(u, text, wrote) ==
    /\ pc = "idle"
    /\ UNCHANGED env
    /\ sessions' = IF wrote
                   THEN CallTextHandler(TextHandler(sessions, u), sessions, u, text).store
                   ELSE sessions
    /\ last' = Event(u, "text", "UnexpectedError")
    /\ UNCHANGED <<pc, cur, userData>>

\* a handler called by handle_callback_query raises: the except clause of
\* handle_callback_query reports the failure
CallbackRaises(u, d, listing, wrote) ==
    /\ pc = "idle"
    /\ UNCHANGED env
    /\ sessions' = IF wrote
                   THEN CallHandler(CallbackHandler(d.cmd), sessions, u, d.arg,
                                    listing).store
                   ELSE sessions
    /\ last' = Event(u, EventKind(d.cmd), "HandlerError")
    /\ UNCHANGED <<pc, cur, userData>>

\* the buttons pressed while faults are followed
FaultCallbacks ==
    {[cmd |-> "order_select_service", arg |-> id] : id \in ServiceIds}
    \cup {[cmd |-> "order_skip_phone", arg |-> 0]}

FaultNext ==
    \/ \E u \in Users : OrderCommand(u)
    \/ \E u \in Users, d \in FaultCallbacks : HandleCallbackQuery(u, d)
    \/ \E u \in Users, text \in Texts : HandleTextMessage(u, text)
    \/ \E u \in Users, text \in Texts, wrote \in BOOLEAN : TextRaises(u, text, wrote)
    \/ \E u \in Users, d \in FaultCallbacks, wrote \in BOOLEAN :
          CallbackRaises(u, d, [ok |-> TRUE, ids |-> ServiceIds], wrote)

SpecFault == Init /\ [][FaultNext]_vars

----------------------------------------------------------------------------
(* Shutdown: the signal sets the event run() waits for; run() then calls  *)
(* shutdown() and returns, and asyncio.run cancels the tasks still alive  *)

notProc == <<sessions, pc, cur, last, userData, now, swept, tasks, notify>>

\* signal_handler: SIGINT or SIGTERM sets the shutdown event
Signal ==
    /\ ~proc.flag
    /\ proc' = [proc EXCEPT !.flag = TRUE]
    /\ UNCHANGED notProc

\* faulty variant: run returns without calling shutdown
RunStops_SkipsShutdown ==
    /\ proc.run = "waiting"
    /\ proc.flag
    /\ proc' = [proc EXCEPT !.run = "returned"]
    /\ UNCHANGED notProc

\* run: _shutdown_event.wait() returns and the finally clause calls shutdown
RunStops ==
    /\ proc.run = "waiting"
    /\ proc.flag
    /\ proc' = [proc EXCEPT !.run = "stopping"]
    /\ UNCHANGED notProc

\* shutdown: updater.stop(), no further update is fetched
StopUpdater ==
    /\ proc.run = "stopping"
    /\ proc.dispatch = "polling"
    /\ proc' = [proc EXCEPT !.dispatch = "draining"]
    /\ UNCHANGED notProc

\* shutdown: application.stop() and application.shutdown() return once the
\* update in hand has been handled
StopApplication ==
    /\ proc.run = "stopping"
    /\ proc.dispatch = "draining"
    /\ pc = "idle"
    /\ \A k \in Slots : ~Running(k)
    /\ proc' = [proc EXCEPT !.dispatch = "stopped"]
    /\ UNCHANGED notProc

\* shutdown: webhook_handler.stop_server
StopWebhook ==
    /\ proc.run = "stopping"
    /\ proc.dispatch = "stopped"
    /\ proc.webhook = "serving"
    /\ proc' = [proc EXCEPT !.webhook = "stopped"]
    /\ UNCHANGED notProc

\* shutdown has returned and so does run
RunReturns ==
    /\ proc.run = "stopping"
    /\ proc.dispatch = "stopped"
    /\ proc.webhook = "stopped"
    /\ proc' = [proc EXCEPT !.run = "returned"]
    /\ UNCHANGED notProc

\* cleanup_sessions_periodically: the flag is clear, a pass is made and the
\* task goes to sleep
SweepPass ==
    /\ proc.sweep = "cleanup"
    /\ ~proc.flag
    /\ LET r == cleanup_old_sessions(sessions, SessionCleanupHours) IN
       /\ sessions' = r.store
       /\ swept' = r.removed
    /\ proc' = [proc EXCEPT !.sweep = "sleeping"]
    /\ UNCHANGED <<pc, cur, last, userData, now, tasks, notify>>

\* cleanup_sessions_periodically: the while condition finds the flag set
SweepObservesFlag ==
    /\ proc.sweep = "cleanup"
    /\ proc.flag
    /\ proc' = [proc EXCEPT !.sweep = "exited"]
    /\ UNCHANGED notProc

\* asyncio.sleep(3600) is over
SweepWakes ==
    /\ proc.sweep = "sleeping"
    /\ proc' = [proc EXCEPT !.sweep = "cleanup"]
    /\ UNCHANGED notProc

\* asyncio.run, after main has returned, cancels the task in its sleep; the
\* loop catches CancelledError and breaks
SweepCancelled ==
    /\ proc.sweep = "sleeping"
    /\ proc.run = "returned"
    /\ proc' = [proc EXCEPT !.sweep = "exited"]
    /\ UNCHANGED notProc

Polling == proc.dispatch = "polling"

ShutdownNext ==
    \/ \E u \in Shoppers : Polling /\ Quiet /\ OrderCommand(u)
    \/ \E k \in Slots, u \in Shoppers, text \in Texts : Polling /\ ConcReceive(k, u, text)
    \/ \E k \in Slots : ConcRead(k)
    \/ \E k \in Slots : ConcWrite(k)
    \/ Signal
    \/ RunStops
    \/ StopUpdater
    \/ StopApplication
    \/ StopWebhook
    \/ RunReturns
    \/ SweepPass
    \/ SweepObservesFlag
    \/ SweepWakes
    \/ SweepCancelled

\* the event loop runs every task that is ready, and a sleep ends
ShutdownFairness ==
    /\ \A k \in Slots : WF_vars(ConcRead(k)) /\ WF_vars(ConcWrite(k))
    /\ WF_vars(RunStops)
    /\ WF_vars(StopUpdater)
    /\ WF_vars(StopApplication)
    /\ WF_vars(StopWebhook)
    /\ WF_vars(RunReturns)
    /\ WF_vars(SweepObservesFlag)
    /\ WF_vars(SweepWakes)
    /\ WF_vars(SweepCancelled)

SpecShutdown == Init /\ [][ShutdownNext]_vars /\ ShutdownFairness

----------------------------------------------------------------------------
(* Properties of the order state machine *)

StepMoved(u) ==
    /\ HasSession(sessions, u)
    /\ HasSession(sessions', u)
    /\ sessions'[u].step # sessions[u].step

MovedToSuccessor(u) ==
    StepIndex(sessions'[u].step) = StepIndex(sessions[u].step) + 1

MovedBackByNavigation(u) ==
    /\ StepIndex(sessions'[u].step) < StepIndex(sessions[u].step)
    /\ last'.kind \in {"navigate", "return", "edit"}

AllCollected(s) ==
    /\ s.service_id # None
    /\ s.customer_name # None /\ s.customer_email # None /\ s.customer_phone # None
    /\ s.material # None /\ s.quality # None /\ s.infill # None

C3_FailedConfirmKeepsSession ==
    [][/\ (pc = "submitting" /\ pc' = "idle") =>
             /\ sessions' = sessions
             /\ AtStep(sessions', cur, "CONFIRMATION")
             /\ last'.out = "OrderSubmissionFailed"
       /\ (/\ last.out = "OrderSubmissionFailed"
           /\ HandleCallbackQuery(last.user, [cmd |-> "order_confirm", arg |-> 0]))
             => pc' = "submitting" /\ cur' = last.user]_vars

C3_Witness ==
    \E u \in Users :
        /\ last = Event(u, "order_confirm", "OrderSubmissionFailed")
        /\ AtStep(sessions, u, "CONFIRMATION")
        /\ AllCollected(sessions[u])

\* C4: while the submission is in flight the session stays at CONFIRMATION;
\* it is SUBMITTED only after the upstream accepted the order, and once the
\* event has completed the user has no session.
C4_SubmittedThenCleared ==
    /\ pc = "submitting" => AtStep(sessions, cur, "CONFIRMATION")
    /\ pc = "submitted" => AtStep(sessions, cur, "SUBMITTED")
    /\ \A u \in DOMAIN sessions :
          sessions[u].step = "SUBMITTED" => pc = "submitted" /\ cur = u
    /\ last.out = "Cleared" => pc = "idle" /\ ~HasSession(sessions, last.user)

C4_Witness ==
    \E u \in Users :
        /\ last = Event(u, "order_confirm", "Cleared")
        /\ ~HasSession(sessions, u)

\* C5: after Cancel (the /cancel command or the order_cancel button) has been
\* handled, the user has no session.
C5_CancelClears ==
    last.kind \in {"/cancel", "order_cancel"} => ~HasSession(sessions, last.user)

C5_Witness ==
    \E u \in Users :
        /\ last = Event(u, "order_cancel", "Cancelled")
        /\ ~HasSession(sessions, u)

\* C6: handling Cancel never starts a submission, and a submission is in
\* flight only for a user who still has a session.
C6_CancelNeverSubmits ==
    /\ last.kind \in {"/cancel", "order_cancel"} => pc = "idle"
    /\ pc # "idle" => HasSession(sessions, cur)

C6_Witness ==
    \E u \in Users :
        /\ last = Event(u, "/cancel", "Cancelled")
        /\ pc = "idle"

\* customer_email is never set while customer_name is unset, and
\* customer_phone is never set while customer_email is unset
ContactOrder ==
    \A u \in DOMAIN sessions :
        /\ sessions[u].customer_email # None => sessions[u].customer_name # None
        /\ sessions[u].customer_phone # None => sessions[u].customer_email # None

\* the text t went to the first unset contact field of u's session: it is
\* stored there if it has the field's format, and nothing else changes
RoutedToFirstUnset(u, t) ==
    LET s == sessions[u] IN
    IF Falsy(s.customer_name)
    THEN sessions' = Put(sessions, u, [s EXCEPT !.customer_name = Some(t)])
    ELSE IF Falsy(s.customer_email)
    THEN sessions' = IF validate_email(t)
                     THEN Put(sessions, u, [s EXCEPT !.customer_email = Some(t)])
                     ELSE sessions
    ELSE IF s.customer_phone = None
    THEN sessions' = IF validate_phone(t)
                     THEN Put(sessions, u, [s EXCEPT !.customer_phone = Some(t),
                                                     !.step = "FILE_UPLOAD"])
                     ELSE sessions
    ELSE sessions' = sessions

PromptPending(u) ==
    tracking_state[u] = "waiting_for_email" \/ subscription_state[u] = "waiting_for_email"

C8_PhoneSkipTriState ==
    /\ \A u \in Users :
          last = Event(u, "order_skip_phone", "Ok") =>
             /\ AtStep(sessions, u, "FILE_UPLOAD")
             /\ sessions[u].customer_phone = PhoneSkipped
             /\ sessions[u].customer_phone # None
    /\ \A u \in DOMAIN sessions :
          sessions[u].customer_phone = PhoneSkipped =>
             TextConsumer(tracking_state[u], subscription_state[u], sessions, u)
                # "handle_contact_phone"

\* a session back at CONTACT_INFO with its phone skipped
C8_Witness ==
    \E u \in Users :
        /\ AtStep(sessions, u, "CONTACT_INFO")
        /\ sessions[u].customer_phone = PhoneSkipped

\* texts that are not an email address, and texts that are not a phone number
NotAnEmail == {"+7900"}
NotAPhone == {"ann@x.com"}

\* C9: a text routed to the email (phone) field that is not an email address
\* (a phone number) leaves the session store as it was and is answered with a
\* re-prompt.
C9_InvalidContactTextRejected ==
    [][\A u \in Shoppers, t \in Texts :
          (/\ last'.kind = "text"
           /\ LET h == TextConsumer(tracking_state[u], subscription_state[u],
                                    sessions, u) IN
              \/ h = "handle_contact_email" /\ t \in NotAnEmail
              \/ h = "handle_contact_phone" /\ t \in NotAPhone
           /\ HandleTextMessage(u, t))
          => sessions' = sessions /\ last'.out = "ValidationError"]_vars

C9_Witness ==
    \E u \in Users :
        /\ last = Event(u, "text", "ValidationError")
        /\ AtStep(sessions, u, "CONTACT_INFO")
        /\ sessions[u].customer_email = None

FailureOutcomes ==
    {"ValidationError", "InvalidSelection", "UpstreamUnavailable",
     "OrderSubmissionFailed", "UnsupportedFormat", "FileTooLarge",
     "NothingToRemove", "SessionExists", "Ignored", "ServiceNotFound",
     "FileNotFound"}

\* C10: an event that fails leaves the session store exactly as it was, and an
\* event that changes the store leaves every session with the data that the
\* steps before its step collect.
C10_NoPartialWrites ==
    [][/\ last'.out \in FailureOutcomes => sessions' = sessions
       /\ sessions' # sessions =>
             \A u \in DOMAIN sessions' :
                LET s == sessions'[u] IN
                /\ s.step \notin {"SERVICE_SELECTION"} => s.service_id # None
                /\ s.step \notin {"SERVICE_SELECTION", "CONTACT_INFO"} =>
                      s.customer_name # None /\ s.customer_email # None
                /\ s.step \in {"DELIVERY", "CONFIRMATION", "SUBMITTED"} =>
                      s.material # None /\ s.quality # None /\ s.infill # None]_vars

\* an invalid selection, after which the new session still has no service
C10_Witness ==
    \E u \in Users :
        /\ last = Event(u, "callback", "InvalidSelection")
        /\ AtStep(sessions, u, "SERVICE_SELECTION")
        /\ sessions[u].service_id = None


----------------------------------------------------------------------------
(* Navigation, editing, selection and files *)

\* the same collected data: every field but the step and the time stamp
SameData(s1, s2) ==
    [s1 EXCEPT !.step = "", !.updated_at = 0] = [s2 EXCEPT !.step = "", !.updated_at = 0]

BackCmds == NavigationCmds \ {"order_back_to_confirmation"}

\* C11: a NavigateBack event changes at most the step of the user's session,
\* and never to a later step: service, contact fields, files, specifications
\* and delivery are as before.
C11_NavigateBackOnlyStep ==
    [][\A u \in Shoppers, d \in CallbackData :
          (/\ d.cmd \in BackCmds
           /\ last'.kind = "navigate"
           /\ HasSession(sessions, u)
           /\ HandleCallbackQuery(u, d))
          => /\ HasSession(sessions', u)
             /\ SameData(sessions'[u], sessions[u])
             /\ StepIndex(sessions'[u].step) <= StepIndex(sessions[u].step)]_vars

\* a session sent back to SERVICE_SELECTION with files, specifications and a
\* delivery address collected
C11_Witness ==
    \E u \in Users :
        /\ AtStep(sessions, u, "SERVICE_SELECTION")
        /\ last = Event(u, "navigate", "Ok")
        /\ sessions[u].uploaded_files # <<>>
        /\ AllCollected(sessions[u])
        /\ sessions[u].delivery_address # None

\* the step that owns the field an edit button names
EditOwner(cmd) ==
    CASE cmd = "order_edit_contacts" -> "CONTACT_INFO"
      [] cmd = "order_edit_files"    -> "FILE_UPLOAD"
      [] cmd = "order_edit_specs"    -> "SPECIFICATIONS"
      [] cmd = "order_edit_delivery" -> "DELIVERY"

\* C12: EditField(X) handled at CONFIRMATION sets the step to the step that
\* owns X and leaves the collected data as it was.
C12_EditJumpsToOwner ==
    [][\A u \in Shoppers, d \in CallbackData :
          (/\ d.cmd \in EditCmds
           /\ last'.kind = "edit"
           /\ AtStep(sessions, u, "CONFIRMATION")
           /\ HandleCallbackQuery(u, d))
          => /\ AtStep(sessions', u, EditOwner(d.cmd))
             /\ SameData(sessions'[u], sessions[u])]_vars

\* a confirmed order with a delivery address, sent to FILE_UPLOAD by an edit
C12_Witness ==
    \E u \in Users :
        /\ AtStep(sessions, u, "FILE_UPLOAD")
        /\ last = Event(u, "edit", "Ok")
        /\ AllCollected(sessions[u])
        /\ sessions[u].delivery_address # None

\* C13: a text received at CONTACT_INFO by a session whose name, email and
\* phone are all collected (a session that came back to this step) is applied
\* to a contact field, not answered with 'already collected'.
C13_ContactsEditableAfterReturn ==
    [][\A u \in Shoppers, t \in Texts :
          (/\ last'.kind = "text"
           /\ AtStep(sessions, u, "CONTACT_INFO")
           /\ ContactsDone(sessions[u])
           /\ ~PromptPending(u)
           /\ HandleTextMessage(u, t))
          => /\ last'.out # "AlreadyCollected"
             /\ \E f \in {"customer_name", "customer_email", "customer_phone"} :
                   sessions'[u][f] = Some(t)]_vars

SelectServiceCmds == {"select_service", "order_service", "order_select_service"}

\* the outcomes whose reply shows the catalog again
CatalogShown == {"InvalidSelection"}

\* C14: SelectService(id) with an id the current listing does not hold fails
\* with InvalidSelection, shows the catalog again and leaves the session store
\* as it was.
C14_InvalidSelectionRedisplays ==
    [][\A u \in Shoppers, d \in CallbackData, listing \in Listings :
          (/\ d.cmd \in SelectServiceCmds
           /\ last'.kind = "callback"
           /\ listing.ok /\ d.arg \notin listing.ids
           /\ (d.cmd = "select_service" \/ AtStep(sessions, u, "SERVICE_SELECTION"))
           /\ CallbackQueryWith(u, d, listing))
          => /\ last'.out \in CatalogShown
             /\ sessions' = sessions]_vars

StandaloneReplies == {"FileReceived", "UnsupportedFormat", "FileTooLarge", "FileNotFound"}

\* C15: a file changes the store only for a session at FILE_UPLOAD, and then
\* only by being appended to its uploaded_files; for a user without a session
\* or with a session at another step the file is acknowledged on its own and
\* the store is as before.
C15_FileOnlyAtFileUpload ==
    [][\A u \in Shoppers, f \in Files :
          (last'.kind = "file" /\ HandleFile(u, f)) =>
             IF AtStep(sessions, u, "FILE_UPLOAD")
             THEN \/ sessions' = sessions
                  \/ /\ sessions'[u].uploaded_files = Append(sessions[u].uploaded_files, f)
                     /\ [sessions'[u] EXCEPT !.uploaded_files = <<>>, !.updated_at = 0]
                          = [sessions[u] EXCEPT !.uploaded_files = <<>>, !.updated_at = 0]
             ELSE sessions' = sessions /\ last'.out \in StandaloneReplies]_vars

\* a model file acknowledged on its own while the session waits at another step
C15_Witness ==
    \E u \in Users :
        /\ last = Event(u, "file", "FileReceived")
        /\ HasSession(sessions, u)
        /\ sessions[u].step = "SPECIFICATIONS"

\* what the file rules give for each named document: .txt is not a model
\* format, whatever the size; 50 MiB is 52428800 bytes, and only more is too large
ExpectedReply(f) ==
    CASE f.name = "notes.txt" -> "UnsupportedFormat"
      [] f.name = "huge.txt"  -> "UnsupportedFormat"
      [] f.name = "big.stl"   -> "FileTooLarge"
      [] f.name = "part.STL"  -> "FileReceived"

\* C16: outside FILE_UPLOAD a named file without a model extension is
\* UnsupportedFormat, also when it is too large; a model file above 50 MiB is
\* FileTooLarge; the store is as before.
C16_FileRejections ==
    [][\A u \in Shoppers, f \in Files :
          (/\ last'.kind = "file"
           /\ ~AtStep(sessions, u, "FILE_UPLOAD") /\ f.name # ""
           /\ HandleFile(u, f))
          => last'.out = ExpectedReply(f) /\ sessions' = sessions]_vars

\* a file above the ceiling rejected outside the upload step
C16_Witness ==
    \E u \in Users :
        /\ last = Event(u, "file", "FileTooLarge")
        /\ ~AtStep(sessions, u, "FILE_UPLOAD")

RemoveLastFile == [cmd |-> "order_remove_last_file", arg |-> 0]

\* C17: RemoveLastFile on a session at FILE_UPLOAD without files is answered
\* NothingToRemove and the store is as before.
C17_NothingToRemove ==
    [][\A u \in Shoppers :
          (/\ AtStep(sessions, u, "FILE_UPLOAD")
           /\ sessions[u].uploaded_files = <<>>
           /\ HandleCallbackQuery(u, RemoveLastFile))
          => sessions' = sessions /\ last'.out = "NothingToRemove"]_vars

C17_Witness ==
    \E u \in Users :
        /\ last = Event(u, "callback", "NothingToRemove")
        /\ AtStep(sessions, u, "FILE_UPLOAD")
        /\ sessions[u].uploaded_files = <<>>

StartOrder == [cmd |-> "start_order", arg |-> 0]

\* C19: StartOrder (/order or the start_order button) for a user who has a
\* session fails with SessionExists and leaves the store as it was.
C19_CreateFailsIfExists ==
    [][\A u \in Shoppers :
          (HasSession(sessions, u) /\ (OrderCommand(u) \/ HandleCallbackQuery(u, StartOrder)))
          => sessions' = sessions /\ last'.out = "SessionExists"]_vars

\* /order refused while the session already holds a service
C19_Witness ==
    \E u \in Users :
        /\ last = Event(u, "/order", "SessionExists")
        /\ HasSession(sessions, u)
        /\ sessions[u].service_id # None


----------------------------------------------------------------------------
(* Idle sessions *)

\* the sessions a sweep has to remove
Expired == {u \in DOMAIN sessions : IdleTime(sessions[u]) > SessionCleanupHours}

\* C18: a sweep removes exactly the sessions idle for longer than max_idle and
\* returns their ids; every session idle for at most max_idle is kept as it is
C18_SweepRemovesExactlyIdle ==
    [][CleanupSessions =>
          /\ swept' = Expired
          /\ DOMAIN sessions' = (DOMAIN sessions) \ Expired
          /\ \A u \in DOMAIN sessions' : sessions'[u] = sessions[u]]_vars

\* a sweep removed u1, idle for too long, and kept u2, idle for a shorter time
C18_Witness ==
    /\ swept = {"u1"}
    /\ ~HasSession(sessions, "u1")
    /\ HasSession(sessions, "u2")
    /\ IdleTime(sessions["u2"]) > 0
    /\ IdleTime(sessions["u2"]) <= SessionCleanupHours


----------------------------------------------------------------------------
(* Two events of one user *)

\* the store after one text is handled from start to end
TextApply(store, u, text) ==
    CallTextHandler(TextHandler(store, u), store, u, text).store

\* C20: once two text events of one user are both handled, the store is what
\* handling them one after the other, in one of the two orders, gives from
\* the store they found; no update is lost
C20_SerialPerUser ==
    (/\ \A k \in Slots : tasks.run[k].phase = "done"
     /\ tasks.run[1].user = tasks.run[2].user)
    => LET u  == tasks.run[1].user
           t1 == tasks.run[1].text
           t2 == tasks.run[2].text
           b  == tasks.base[1] IN
       \/ sessions = TextApply(TextApply(b, u, t1), u, t2)
       \/ sessions = TextApply(TextApply(b, u, t2), u, t1)

\* two texts were handled at CONTACT_INFO and each filled a contact field
C20_Witness ==
    /\ \A k \in Slots : tasks.run[k].phase = "done"
    /\ tasks.run[1].handler = "handle_contact_email"
    /\ tasks.run[2].handler = "handle_contact_name"
    /\ HasSession(sessions, "u1")
    /\ sessions["u1"].customer_name = Some(tasks.run[2].text)
    /\ sessions["u1"].customer_email = Some(tasks.run[1].text)


----------------------------------------------------------------------------
(* Users and the dispatch loop *)

\* C21: while the event of one user is suspended on the upstream call, an
\* event of a different user can be handled without waiting for that call
C21_OtherUserNotBlocked ==
    pc = "submitting" => \A v \in Users \ {cur} : ENABLED OrderCommand(v)


----------------------------------------------------------------------------
(* Subscriptions *)

\* C22: a subscribe request of a user whose subscription is active is taken
\* up, so that the email given next replaces the stored one in the user's
\* record; it is not refused
C22_ActiveSubscribeUpdates ==
    [][\A u \in Users :
          (/\ last'.kind = "/subscribe"
           /\ IsSubscribed(subscriptions, u)
           /\ SubscribeCommand(u))
          => /\ last'.out # "AlreadySubscribed"
             /\ subscription_state'[u] = "waiting_for_email"]_vars

SameRecord(r1, r2) ==
    r1.email = r2.email /\ r1.notification_types = r2.notification_types

\* C23: unsubscribing keeps the record of the user, switched off; no step
\* removes a record; a subscription confirmed afterwards switches the same
\* record on
C23_SoftDeleteReactivates ==
    [][\A u \in Users :
          /\ u \in DOMAIN subscriptions => u \in DOMAIN subscriptions'
          /\ (/\ last'.kind = "/unsubscribe"
              /\ IsSubscribed(subscriptions, u)
              /\ UnsubscribeCommand(u))
             => /\ ~subscriptions'[u].is_active
                /\ SameRecord(subscriptions'[u], subscriptions[u])
          /\ (/\ u \in DOMAIN subscriptions
              /\ ~subscriptions[u].is_active
              /\ last'.out = "Subscribed"
              /\ \E t \in SubsTexts : HandleTextMessage(u, t))
             => /\ DOMAIN subscriptions' = DOMAIN subscriptions
                /\ subscriptions'[u].is_active]_vars

\* u1 has unsubscribed: the record is still there, switched off
C23_Witness ==
    /\ last = Event("u1", "/unsubscribe", "Unsubscribed")
    /\ "u1" \in DOMAIN subscriptions
    /\ ~subscriptions["u1"].is_active
    /\ subscriptions["u1"].email = "bob@x.com"

\* C24: /unsubscribe of a user without an active subscription is answered
\* "not subscribed" and changes nothing; it reports success only when it
\* switched an active subscription off
C24_UnsubscribeOnlyActive ==
    [][\A u \in Users :
          (last'.kind = "/unsubscribe" /\ UnsubscribeCommand(u))
          => IF IsSubscribed(subscriptions, u)
             THEN /\ last'.out = "Unsubscribed"
                  /\ ~IsSubscribed(subscriptions', u)
             ELSE /\ last'.out = "NotSubscribed"
                  /\ subscriptions' = subscriptions]_vars

\* u2 unsubscribed a second time: the record was already switched off
C24_Witness ==
    /\ last = Event("u2", "/unsubscribe", "NotSubscribed")
    /\ "u2" \in DOMAIN subscriptions
    /\ ~subscriptions["u2"].is_active


----------------------------------------------------------------------------
(* Notifications *)

\* the active subscriptions whose email is that of the event, whatever the case
EmailMatches(ev) ==
    {u \in DOMAIN subscriptions :
        /\ subscriptions[u].is_active
        /\ LowerEmail(subscriptions[u].email) = LowerEmail(ev.customer_email)}

\* the users a message of the event in hand went out to, or was tried for
Tried == {notify.log[i].user : i \in DOMAIN notify.log}

Finished == notify.event # NoEvent /\ notify.queue = {}

C26_TypesRespected ==
    [][\A ev \in Events :
          DispatchBegin(ev)
          => \A u \in EmailMatches(ev) :
                subscriptions[u].notification_types = {"order_ready"}
                => (u \in notify'.targets <=> IndicatesReadiness(ev.new_status))]_vars

\* an event that does not indicate readiness went to u2 and not to u1, who
\* opted into order_ready only
C26_Witness ==
    /\ Finished
    /\ notify.event = [customer_email |-> "bob@x.com", new_status |-> "printing"]
    /\ "u1" \in EmailMatches(notify.event)
    /\ subscriptions["u1"].notification_types = {"order_ready"}
    /\ Tried = {"u2"}

\* C27: when the fan-out of an event ends, every matching subscriber has been
\* tried exactly once, whether or not a delivery failed; nobody is tried twice
C27_FailureDoesNotBlock ==
    /\ Tried \subseteq notify.targets
    /\ \A i, j \in DOMAIN notify.log :
          notify.log[i].user = notify.log[j].user => i = j
    /\ Finished => Tried = notify.targets

\* the first delivery failed and the second subscriber was still served
C27_Witness ==
    /\ Finished
    /\ Len(notify.log) = 2
    /\ ~notify.log[1].ok
    /\ notify.log[2].ok


----------------------------------------------------------------------------
(* Unexpected exceptions *)

\* an update of u whose handler raised
Raises(u) ==
    \/ \E text \in Texts, wrote \in BOOLEAN : TextRaises(u, text, wrote)
    \/ \E d \in FaultCallbacks, wrote \in BOOLEAN :
          CallbackRaises(u, d, [ok |-> TRUE, ids |-> ServiceIds], wrote)

Faulted == last.out \in {"UnexpectedError", "HandlerError"}

\* C28: an exception raised while an update of one user is handled leaves the
\* dispatch loop ready for the next update and the sessions of all other
\* users as they were
C28_FaultIsContained ==
    /\ [][\A u \in Users :
            (/\ last'.user = u
             /\ last'.out \in {"UnexpectedError", "HandlerError"}
             /\ Raises(u))
            => /\ pc' = "idle"
               /\ \A v \in Users \ {u} :
                     /\ HasSession(sessions', v) <=> HasSession(sessions, v)
                     /\ HasSession(sessions, v) => sessions'[v] = sessions[v]]_vars
    /\ [](Faulted => \A v \in Users : ENABLED OrderCommand(v))

\* an update of u1 raised after its handler had written; u2 is in the middle
\* of an order and the loop is ready
C28_Witness ==
    /\ last = Event("u1", "text", "UnexpectedError")
    /\ pc = "idle"
    /\ HasSession(sessions, "u1")
    /\ sessions["u1"].customer_name # None
    /\ HasSession(sessions, "u2")
    /\ sessions["u2"].step = "CONTACT_INFO"
    /\ sessions["u2"].customer_email # None


----------------------------------------------------------------------------
(* Shutdown *)

AllExited ==
    /\ proc.dispatch = "stopped"
    /\ proc.sweep = "exited"
    /\ proc.webhook = "stopped"

----------------------------------------------------------------------------
(* C30 *)

\* the step that owns an order button (spec.md 4.1, the transition table)
OwnerStep(cmd) ==
    CASE cmd = "order_select_service"      -> "SERVICE_SELECTION"
      [] cmd = "order_skip_phone"          -> "CONTACT_INFO"
      [] cmd = "order_continue_with_files" -> "FILE_UPLOAD"
      [] cmd = "order_remove_last_file"    -> "FILE_UPLOAD"
      [] cmd \in {"order_spec_material", "order_spec_quality",
                  "order_spec_infill"}     -> "SPECIFICATIONS"
      [] cmd \in {"order_delivery_pickup",
                  "order_delivery_shipping"} -> "DELIVERY"
      [] cmd = "order_confirm"             -> "CONFIRMATION"
      [] OTHER                             -> "any"

\* an order button pressed by a user whose session is not at the button's step
Illegal(u, d) ==
    \/ OwnerStep(d.cmd) # "any" /\ ~AtStep(sessions, u, OwnerStep(d.cmd))
    \/ /\ d.cmd \in NavigationCmds \ {"order_back_to_confirmation"}
       /\ \/ ~HasSession(sessions, u)
          \/ StepIndex(BackTarget(NavigationHandler(d.cmd)))
                > StepIndex(sessions[u].step)

----------------------------------------------------------------------------
(* C31 *)

Pickup == [cmd |-> "order_delivery_pickup", arg |-> 0]

Shipping == [cmd |-> "order_delivery_shipping", arg |-> 0]

AddressIffNeeded(s) == (s.delivery_address # None) <=> s.delivery_needed

----------------------------------------------------------------------------
(* C32 *)

SpecCmds == {"order_spec_material", "order_spec_quality", "order_spec_infill"}

\* a chosen value, if any, is of the enumeration
InEnum(field) == field = None \/ field[1] \in SpecEnum

SpecsInEnum(s) == InEnum(s.material) /\ InEnum(s.quality) /\ InEnum(s.infill)

\* C32: a session goes from SPECIFICATIONS to DELIVERY only with material,
\* quality and infill all chosen; a selection with a value outside the
\* enumeration is rejected and the store is left as it was; no session ever
\* holds a value outside the enumeration
C32_SpecificationsComplete ==
    /\ [][\A u \in Users :
            /\ (AtStep(sessions, u, "SPECIFICATIONS")
                  /\ AtStep(sessions', u, "DELIVERY"))
               => SpecsChosen(sessions'[u])
            /\ \A d \in CallbackData :
                  (/\ d.cmd \in SpecCmds
                   /\ d.arg \notin SpecEnum
                   /\ last'.user = u
                   /\ last'.kind = "callback"
                   /\ HandleCallbackQuery(u, d))
                  => /\ sessions' = sessions
                     /\ last'.out \in {"ValidationError", "Ignored"}]_vars
    /\ [](\A u \in DOMAIN sessions : SpecsInEnum(sessions[u]))

\* a value outside the enumeration was refused while two of the three
\* choices had been made
C32_Witness ==
    /\ last = Event("u1", "callback", "ValidationError")
    /\ AtStep(sessions, "u1", "SPECIFICATIONS")
    /\ sessions["u1"].material = Some("pla")
    /\ sessions["u1"].infill = Some("pla")
    /\ sessions["u1"].quality = None

----------------------------------------------------------------------------
(* C33 *)

\* u has unsubscribed and has not subscribed again: the record is kept,
\* switched off
Unsubscribed(u) == u \in DOMAIN subscriptions /\ ~subscriptions[u].is_active

Delivered == {notify.log[i].user : i \in DOMAIN notify.log}

----------------------------------------------------------------------------
(* C34 *)

Confirm == [cmd |-> "order_confirm", arg |-> 0]

\* C34: submit_order succeeds only for a session at CONFIRMATION, which it
\* turns into SUBMITTED; a SUBMITTED session is the one just accepted and the
\* very next step removes it; and while a submission is in flight or just
\* accepted no Confirm of any user is taken, a second press waiting for the
\* first to return.  So no session is accepted twice.
C34_AtMostOneOrder ==
    /\ [][/\ (pc = "submitting" /\ pc' = "submitted")
              => (/\ AtStep(sessions, cur, "CONFIRMATION")
                  /\ AtStep(sessions', cur, "SUBMITTED"))
          /\ (pc = "submitted")
              => (pc' = "idle" /\ ~HasSession(sessions', cur))]_vars
    /\ [](\A u \in Users :
            AtStep(sessions, u, "SUBMITTED") => (pc = "submitted" /\ cur = u))
    /\ [](pc # "idle"
           => \A u \in Users : ~ENABLED HandleCallbackQuery(u, Confirm))

\* the order of u1 has just been accepted and a second press is not taken
C34_Witness ==
    /\ pc = "submitted"
    /\ cur = "u1"
    /\ AtStep(sessions, "u1", "SUBMITTED")
    /\ last = Event("u1", "order_confirm", "Submitted")

----------------------------------------------------------------------------
(* C35 *)

\* the text handler in slot k resumes and completes
Resumes(k) == tasks.run[k].phase = "routed" /\ tasks'.run[k].phase = "done"

\* C35: a text handler that resumes after the session of its user was
\* removed leaves the store as it is: the user still has no session and no
\* field of the removed one is written back
C35_NoResurrection ==
    [][\A k \in Slots :
          (Resumes(k) /\ ~HasSession(sessions, tasks.run[k].user))
          => sessions' = sessions]_vars

\* the name handler was chosen for the session of u1, the sweep removed the
\* session during the await, and the handler has completed
C35_Witness ==
    \E k \in Slots :
       /\ tasks.run[k].phase = "done"
       /\ tasks.run[k].user = "u1"
       /\ tasks.run[k].handler = "handle_contact_name"
       /\ swept = {"u1"}
       /\ ~HasSession(sessions, "u1")
       /\ last = Event("u1", "text", "Ignored")

----------------------------------------------------------------------------
(* C36 *)

TrackingReplies == TrackingOutcomes \cup {"InvalidEmail"}

SubscriptionReplies ==
    {"Subscribed", "SubscribeFailed", "NotificationsUnavailable", "InvalidEmail",
     "ReplyFailed"}

SessionReplies ==
    {"Ok", "ValidationError", "AlreadyCollected", "StepMessage", "Ignored"}

\* the step handles a text of u (every other action leaves another kind)
TextStep(u) == last'.kind = "text" /\ last'.user = u /\ pc = "idle"

\* C36: a text has one consumer: the tracking prompt if it is pending, else
\* the subscription prompt if it is pending, else the order session, else the
\* greeting; each consumer leaves alone what belongs to the others, and a
\* text taken by a prompt leaves the session store unchanged
C36_TextHasOneConsumer ==
    [][\A u \in Users :
          TextStep(u) =>
            IF tracking_state[u] = "waiting_for_email"
            THEN /\ last'.out \in TrackingReplies
                 /\ UNCHANGED <<sessions, subscription_state, subscriptions>>
            ELSE IF subscription_state[u] = "waiting_for_email"
            THEN /\ last'.out \in SubscriptionReplies
                 /\ UNCHANGED <<sessions, tracking_state>>
            ELSE IF HasSession(sessions, u)
            THEN /\ last'.out \in SessionReplies
                 /\ UNCHANGED userData
            ELSE /\ last'.out = "Greeting"
                 /\ UNCHANGED <<sessions, userData>>]_vars

\* both prompts were pending and the session awaited the name: the text went
\* to the tracking prompt alone
C36_Witness ==
    /\ last = Event("u1", "text", "OrdersListed")
    /\ tracking_state["u1"] = "none"
    /\ subscription_state["u1"] = "waiting_for_email"
    /\ AtStep(sessions, "u1", "CONTACT_INFO")
    /\ sessions["u1"].customer_name = None

----------------------------------------------------------------------------
(* C37 *)

\* the session of u, if any, awaits neither a contact field nor an address
AwaitsNoText(u) ==
    \/ ~HasSession(sessions, u)
    \/ sessions[u].step \in {"SERVICE_SELECTION", "FILE_UPLOAD",
                              "SPECIFICATIONS", "CONFIRMATION"}
    \/ sessions[u].step = "DELIVERY" /\ ~sessions[u].delivery_needed
    \/ /\ sessions[u].step = "CONTACT_INFO"
       /\ ~Falsy(sessions[u].customer_name)
       /\ ~Falsy(sessions[u].customer_email)
       /\ sessions[u].customer_phone # None

\* C37: a text that goes neither to a contact-field handler nor to the
\* address handler leaves the session store unchanged; without a session it
\* creates none
C37_UnroutedTextKeepsStore ==
    [][\A u \in Users :
          (TextStep(u) /\ (PromptPending(u) \/ AwaitsNoText(u)))
          => sessions' = sessions]_vars

\* a text arrived at CONTACT_INFO with name, email and phone decided
C37_Witness ==
    /\ last = Event("u1", "text", "AlreadyCollected")
    /\ AtStep(sessions, "u1", "CONTACT_INFO")
    /\ sessions["u1"].customer_phone # None

----------------------------------------------------------------------------
(* C38 *)

\* a text of u is taken by the tracking prompt
TrackingTakes(u, text) ==
    /\ tracking_state[u] = "waiting_for_email"
    /\ TextStep(u)
    /\ HandleTextMessage(u, text)

\* an ill-formed email keeps the prompt armed and makes no upstream call
RejectedKeepsPrompt(u) ==
    /\ last'.out = "InvalidEmail"
    /\ UpstreamCalls(last'.out) = 0
    /\ tracking_state'[u] = "waiting_for_email"

\* C38, as claimed: in the tracking prompt an ill-formed email keeps the
\* prompt armed without an upstream call, and a well-formed one makes exactly
\* one get_orders_by_email call and clears tracking_state on every path
C38_ValidEmailExactlyOneCall ==
    [][\A u \in Users, text \in Texts :
          TrackingTakes(u, text) =>
            IF ~validate_email(text)
            THEN RejectedKeepsPrompt(u)
            ELSE /\ UpstreamCalls(last'.out) = 1
                 /\ tracking_state'[u] = "none"]_vars

\* C38, amended: a well-formed email makes at most one get_orders_by_email
\* call, exactly one unless the "searching" message could not be sent, and
\* clears tracking_state on every path; nothing else of the user changes
C38_ValidEmailAtMostOneCall ==
    [][\A u \in Users, text \in Texts :
          TrackingTakes(u, text) =>
            IF ~validate_email(text)
            THEN RejectedKeepsPrompt(u)
            ELSE /\ UpstreamCalls(last'.out) <= 1
                 /\ (UpstreamCalls(last'.out) = 0) <=> (last'.out = "LoadingFailed")
                 /\ tracking_state'[u] = "none"
                 /\ UNCHANGED <<sessions, subscription_state, subscriptions>>]_vars

\* the "searching" message could not be sent: no call was made and the
\* prompt is cleared
C38_Witness ==
    /\ last = Event("u1", "text", "LoadingFailed")
    /\ tracking_state["u1"] = "none"

----------------------------------------------------------------------------
(* C39 *)

\* a text of u is taken by the subscription prompt
SubscriptionTakes(u, text) ==
    /\ tracking_state[u] # "waiting_for_email"
    /\ subscription_state[u] = "waiting_for_email"
    /\ TextStep(u)
    /\ HandleTextMessage(u, text)

\* C39: in the subscription prompt an ill-formed email keeps the prompt armed
\* and the subscriptions as they are; a well-formed one clears
\* subscription_state whether or not the subscribe call succeeded, and on
\* success the user's subscription is active with that email and both
\* notification types
C39_SubscriptionPromptCleared ==
    [][\A u \in Users, text \in SubsTexts :
          SubscriptionTakes(u, text) =>
            IF ~validate_email(text)
            THEN /\ subscription_state'[u] = "waiting_for_email"
                 /\ subscriptions' = subscriptions
            ELSE /\ subscription_state'[u] = "none"
                 /\ last'.out = "Subscribed"
                    => /\ IsSubscribed(subscriptions', u)
                       /\ subscriptions'[u].email = text
                       /\ subscriptions'[u].notification_types
                            = {"status_change", "order_ready"}]_vars

----------------------------------------------------------------------------
(* C40 *)

====
